---- MODULE Spec2Model ----
(***************************************************************************)
(* BillManager: the recurrence-date engine (src/utils/dateUtils.js) and    *)
(* the reconciliation of generated due dates against the payments table    *)
(* (src/utils/paymentGenerator.js, src/database/payments.js,               *)
(* src/database/accounts.js, src/database/init.js).                        *)
(*                                                                         *)
(* A JS Date at local midnight is modelled by its day number (days since   *)
(* 1970-01-01); a 'yyyy-MM-dd' string by the integer yyyymmdd, so parsing  *)
(* and formatting are real conversions.  A nullable value is <<>> (null)   *)
(* or <<v>>.                                                               *)
(***************************************************************************)
EXTENDS Integers, Sequences, FiniteSets, TLC

Null == <<>>
Some(v) == <<v>>
IsNull(x) == x = <<>>
Min(a, b) == IF a <= b THEN a ELSE b

(***************************************************************************)
(* Calendar: the JS Date constructor and getters the code relies on.       *)
(* Intermediate values are passed as operator parameters, one step each.   *)
(***************************************************************************)
isLeapYear(y) == (y % 4 = 0 /\ y % 100 # 0) \/ y % 400 = 0
daysInMonth(y, m) ==
  IF m = 2 THEN (IF isLeapYear(y) THEN 29 ELSE 28)
  ELSE IF m \in {4, 6, 9, 11} THEN 30 ELSE 31
daysBeforeMonth(y, m) ==
  <<0, 31, 59, 90, 120, 151, 181, 212, 243, 273, 304, 334>>[m]
    + (IF m > 2 /\ isLeapYear(y) THEN 1 ELSE 0)
daysBeforeYear(y) ==
  365 * (y - 1970) + ((y - 1969) \div 4) - ((y - 1901) \div 100) + ((y - 1601) \div 400)

\* days from 1970-01-01 to the civil date (y, m, d), m in 1..12
daysFromCivil(y, m, d) == daysBeforeYear(y) + daysBeforeMonth(y, m) + (d - 1)

\* <<year, month (1..12), day>> of a day number
civilYmd(y, m, d) == <<IF m <= 2 THEN y + 1 ELSE y, m, d>>
civilMp(y, doy, mp) ==
  civilYmd(y, IF mp < 10 THEN mp + 3 ELSE mp - 9, doy - ((153 * mp + 2) \div 5) + 1)
civilDoy(y, doy) == civilMp(y, doy, (5 * doy + 2) \div 153)
civilYoe(era, doe, yoe) ==
  civilDoy(yoe + era * 400, doe - (365 * yoe + (yoe \div 4) - (yoe \div 100)))
civilDoe(era, doe) ==
  civilYoe(era, doe,
           (doe - (doe \div 1460) + (doe \div 36524) - (doe \div 146096)) \div 365)
civilEra(z) == civilDoe(z \div 146097, z % 146097)
civilFromDays(n) == civilEra(n + 719468)

getFullYear(date) == civilFromDays(date)[1]
\* 1-based month (JS getMonth() + 1)
getMonth1(date) == civilFromDays(date)[2]
getDate(date) == civilFromDays(date)[3]
\* 0 = Sunday .. 6 = Saturday; 1970-01-01 was a Thursday
getDay(date) == (date + 4) % 7

\* new Date(y, m1 - 1, d): month and day overflow are carried, as in JS;
\* monthIndex counts months from year 0
dateOfMonthIndex(monthIndex, d) ==
  daysFromCivil(monthIndex \div 12, (monthIndex % 12) + 1, 1) + (d - 1)
newDate(y, m1, d) == dateOfMonthIndex(y * 12 + (m1 - 1), d)

\* new Date(y, m1, 0).getDate(): the length of month m1 (1-based) of year y
lengthOfMonthIndex(monthIndex) == daysInMonth(monthIndex \div 12, (monthIndex % 12) + 1)
lastDayOfMonth(y, m1) == lengthOfMonthIndex(y * 12 + (m1 - 1))

(***************************************************************************)
(* date-fns functions imported by dateUtils.js.                            *)
(***************************************************************************)
parseISO(s) == newDate(s \div 10000, (s \div 100) % 100, s % 100)
\* format(d, 'yyyy-MM-dd')
formatCivil(c) == c[1] * 10000 + c[2] * 100 + c[3]
getDateString(date) == formatCivil(civilFromDays(date))
\* format(d, 'yyyy-MM')
formatYearMonth(date) == formatCivil(civilFromDays(date)) \div 100

isAfter(a, b) == a > b
isBefore(a, b) == a < b
addDays(date, n) == date + n
addWeeks(date, n) == addDays(date, 7 * n)
\* the day of month is kept, or clamped to the end of the target month
clampedDate(monthIndex, d) ==
  dateOfMonthIndex(monthIndex, Min(d, lengthOfMonthIndex(monthIndex)))
addMonthsCivil(c, n) == clampedDate(c[1] * 12 + (c[2] - 1) + n, c[3])
addMonthsFns(date, n) == addMonthsCivil(civilFromDays(date), n)
addYears(date, n) == addMonthsFns(date, 12 * n)
\* Date.prototype.setDate: a day past the month's end runs into the next month
setDate(date, dayOfMonth) == date - getDate(date) + dayOfMonth
\* setDay(date, day, { weekStartsOn: 0 })
setDayDiff(currentDay, day) ==
  IF day < 0 \/ day > 6
  THEN day - ((currentDay + 7) % 7)
  ELSE (((day % 7) + 7) % 7) - ((currentDay + 7) % 7)
setDay(date, day) == addDays(date, setDayDiff(getDay(date), day))

(***************************************************************************)
(* dateUtils.js: the recurrence rule evaluator and the sequence generator. *)
(***************************************************************************)
\* recurringDetails = {}: every kind-specific parameter undefined
NoDetails ==
  [dayOfWeek |-> Null, dayOfMonth |-> Null, monthOfYear |-> Null, dayOfYear |-> Null]

\* "if (!isAfter(nextDate, date)) nextDate = add...(nextDate, 1)", on-or-after variant
afterStartOrOn(nextDate, date, moved) == IF isBefore(nextDate, date) THEN moved ELSE nextDate

\* "if (!isAfter(nextDate, date)) nextDate = add...(nextDate, 1)": moved is the
\* candidate advanced by one period
afterStart(nextDate, date, moved) == IF ~isAfter(nextDate, date) THEN moved ELSE nextDate

\* a first candidate that is never moved to the following week
weeklyFirstSameWeek(target, date) == target

\* case 'weekly'
weeklyFirst(target, date) == afterStart(target, date, addWeeks(target, 1))
nextWeekly(date, count, dayOfWeek) ==
  IF ~IsNull(dayOfWeek)
  THEN addWeeks(weeklyFirst(setDay(date, dayOfWeek[1]), date), count - 1)
  ELSE addWeeks(date, count)

\* case 'monthly'.  date-fns setDate never throws, so the catch branch
\* (lines 95-99) is dead: the try body's result is the result.
monthlyFirst(safe, date) == afterStart(safe, date, addMonthsFns(safe, 1))
nextMonthly(date, count, dayOfMonth) ==
  IF ~IsNull(dayOfMonth)
  THEN setDate(addMonthsFns(monthlyFirst(setDate(date, Min(dayOfMonth[1], 28)), date),
                            count - 1),
               dayOfMonth[1])
  ELSE addMonthsFns(date, count)

\* "reapply day (for leap year handling)": setDate(d, min(dayOfYear, last day
\* of month monthOfYear in d's year))
reapplyDay(d, monthOfYear, dayOfYear) ==
  setDate(d, Min(dayOfYear, lastDayOfMonth(getFullYear(d), monthOfYear)))

\* the final step of case 'yearly' without the reapply: a clamped Feb 28 sticks
yearlyMovedSticky(base, count, monthOfYear, dayOfYear) == addYears(base, count - 1)

\* case 'yearly'
yearlyMoved(base, count, monthOfYear, dayOfYear) ==
  reapplyDay(addYears(base, count - 1), monthOfYear, dayOfYear)
yearlyFirst(cand, date, monthOfYear, dayOfYear) ==
  afterStart(cand, date, reapplyDay(addYears(cand, 1), monthOfYear, dayOfYear))
nextYearly(date, count, monthOfYear, dayOfYear) ==
  IF ~IsNull(monthOfYear) /\ ~IsNull(dayOfYear)
  THEN yearlyMoved(
         yearlyFirst(reapplyDay(newDate(getFullYear(date), monthOfYear[1], 1),
                                monthOfYear[1], dayOfYear[1]),
                     date, monthOfYear[1], dayOfYear[1]),
         count, monthOfYear[1], dayOfYear[1])
  ELSE addYears(date, count)

\* getNextPaymentDate(startDate, repeatType, count, recurringDetails), startDate a Date
getNextPaymentDate(date, repeatType, count, recurringDetails) ==
  CASE repeatType = "weekly"  -> nextWeekly(date, count, recurringDetails.dayOfWeek)
    [] repeatType = "monthly" -> nextMonthly(date, count, recurringDetails.dayOfMonth)
    [] repeatType = "yearly"  ->
         nextYearly(date, count, recurringDetails.monthOfYear, recurringDetails.dayOfYear)
    [] OTHER                  -> addMonthsFns(date, count)

\* the safety ceiling of generatePaymentDates
MaxIterations == 1000

\* pastEndDate that also drops an occurrence on the end date
pastEndDateOrOn(nextDate, end) == ~IsNull(end) /\ ~isBefore(nextDate, end[1])

\* "if (end && isAfter(nextDate, end)) break": the end date itself is kept
pastEndDate(nextDate, end) == ~IsNull(end) /\ isAfter(nextDate, end[1])

\* a loop condition that keeps only the dates of maxDate's calendar month
inWindowMonthOnly(nextDate, maxDate) == formatYearMonth(nextDate) = formatYearMonth(maxDate)

\* the loop condition: before maxDate, or in maxDate's calendar month
inWindow(nextDate, maxDate) ==
  isBefore(nextDate, maxDate) \/ formatYearMonth(nextDate) = formatYearMonth(maxDate)

\* the while loop of generatePaymentDates: paymentDatesLoop computes nextDate
\* for the iteration, paymentDatesStep is the loop test and body
RECURSIVE paymentDatesLoop(_, _, _, _, _, _, _)
RECURSIVE paymentDatesStep(_, _, _, _, _, _, _, _)
\* a loop without its safety check
neverTooMany(iteration) == FALSE

\* "if (iteration > 1000)": the safety check, after "iteration++"
tooManyIterations(iteration) == iteration > MaxIterations

paymentDatesStep(start, repeatType, recurringDetails, end, maxDate, iteration, dates, nextDate) ==
  IF ~inWindow(nextDate, maxDate)
  THEN dates
  ELSE IF pastEndDate(nextDate, end)
  THEN dates
  ELSE IF tooManyIterations(iteration + 1)
  THEN Append(dates, getDateString(nextDate))
  ELSE paymentDatesLoop(start, repeatType, recurringDetails, end, maxDate,
                        iteration + 1, Append(dates, getDateString(nextDate)))
paymentDatesLoop(start, repeatType, recurringDetails, end, maxDate, iteration, dates) ==
  paymentDatesStep(start, repeatType, recurringDetails, end, maxDate, iteration, dates,
                   getNextPaymentDate(start, repeatType, iteration, recurringDetails))

\* the window counted from the anchor instead of from today
windowMaxDateFromStart(start, currentDate, months) == addMonthsFns(start, months)

\* "const maxDate = addMonthsFns(currentDate, months)": counted from today
windowMaxDate(start, currentDate, months) == addMonthsFns(currentDate, months)

\* "const end = endDate ? parseISO(endDate) : null"
parseEnd(endDate) == IF IsNull(endDate) THEN Null ELSE Some(parseISO(endDate[1]))

\* generatePaymentDates(startDate, repeatType, months, endDate, recurringDetails);
\* startDate a 'yyyy-MM-dd' string, endDate null or such a string, currentDate
\* the value of getCurrentDate() at the call
generatePaymentDatesFrom(start, repeatType, months, endDate, recurringDetails, currentDate) ==
  paymentDatesLoop(start, repeatType, recurringDetails, parseEnd(endDate),
                   windowMaxDate(start, currentDate, months), 1, <<>>)
generatePaymentDates(startDate, repeatType, months, endDate, recurringDetails, currentDate) ==
  generatePaymentDatesFrom(parseISO(startDate), repeatType, months, endDate,
                           recurringDetails, currentDate)

\* "Next 3 months": the horizon generatePaymentsForAccount passes
HorizonMonths == 3

\* the dates generatePaymentsForAccount asks for: no recurringDetails argument
accountPaymentDates(account, currentDate) ==
  generatePaymentDates(account.start_date, account.repeats, HorizonMonths,
                       IF account.has_end_date = 1 THEN account.end_date ELSE Null,
                       NoDetails, currentDate)

(***************************************************************************)
(* State.                                                                  *)
(***************************************************************************)
VARIABLES
  rule,           \* evaluator inputs: [startDate, repeatType, details]
  chain,          \* getNextPaymentDate(start, kind, i, details) for i = 1..Len(chain)
  gen,            \* the last call of the sequence generator and what it returned
  today,          \* getCurrentDate() of the running app
  accounts,       \* the accounts table: a set of rows
  payments,       \* the payments table: a set of rows
  lastAccountId,  \* AUTOINCREMENT of accounts
  lastPaymentId,  \* AUTOINCREMENT of payments
  tasks,          \* the async operations in flight, one record per slot; read
                  \* and results keep what an ...ForAllAccounts operation read
                  \* and what each account's run returned
  detail,         \* the payment loaded in the PaymentDetail screen, or Null
  lastRun,        \* per account id: the rule of the last completed SkipExisting
                  \* run since the payments table last changed, or Null
  ops,            \* operations started so far, the user's included
  logs,           \* the logs table: the number of rows
  sink,           \* "up", or "down": an INSERT INTO logs throws
  writes,         \* "ok", or "failing": an INSERT INTO / DELETE FROM payments throws
  faults,         \* times the sink or the writes have broken so far
  lastFailed,     \* per account, the run that a failing write ended, while the
                  \* table is as that run left it
  form,           \* the AccountDetail form: [startDate, hasEndDate, endDate]
  isReady         \* App's isReady: initializeApp has finished

dateVars == <<rule, chain, gen>>
storeVars ==
  <<today, accounts, payments, lastAccountId, lastPaymentId, tasks, detail, lastRun,
    ops, logs, sink, writes, faults, lastFailed, form, isReady>>
vars ==
  <<rule, chain, gen, today, accounts, payments, lastAccountId, lastPaymentId, tasks,
    detail, lastRun, ops, logs, sink, writes, faults, lastFailed, form, isReady>>
\* the state of the components, outside the database
appVars == <<form, isReady>>

\* bounds of the store model
MaxAccounts == 2
MaxTasks == 2
MaxOps == 3
MaxFaults == 2
MaxSinkFaults == 1
AccountIds == 1..MaxAccounts
TaskIds == 1..MaxTasks

\* a slot with no operation in flight
IdleTask ==
  [op |-> "none", pc |-> "idle", error |-> "none",
   account |-> Null, skipExisting |-> FALSE, dates |-> <<>>, i |-> 0,
   created |-> 0, skipped |-> 0,
   queue |-> <<>>, unpaid |-> <<>>,
   totalCreated |-> 0, totalSkipped |-> 0, totalExpected |-> 0,
   entry |-> {}, prior |-> FALSE, alone |-> FALSE, own |-> FALSE,
   read |-> <<>>, results |-> <<>>, retry |-> Null]

NoRuns == [a \in AccountIds |-> Null]

\* AccountDetail's useState of the dates: startDate = new Date(),
\* hasEndDate = false, endDate = new Date()
blankForm(currentDate) ==
  [accountId |-> Null, startDate |-> currentDate, hasEndDate |-> FALSE,
   endDate |-> currentDate]

\* the database after initDatabase on a fresh install, no operation in flight
StoreInit ==
  /\ today = parseISO(20250131)
  /\ accounts = {}
  /\ payments = {}
  /\ lastAccountId = 0
  /\ lastPaymentId = 0
  /\ tasks = [t \in TaskIds |-> IdleTask]
  /\ detail = Null
  /\ lastFailed = NoRuns
  /\ lastRun = NoRuns
  /\ ops = 0
  /\ logs = 0
  /\ sink = "up"
  /\ writes = "ok"
  /\ faults = 0
  /\ form = blankForm(parseISO(20250131))
  /\ isReady = TRUE

(***************************************************************************)
(* Inputs of the evaluator and the generator.                              *)
(***************************************************************************)
\* anchors: every day from 2023-12-25 on for AnchorSpan days (a year's end,
\* a leap February), and the two anchors of the documented examples
AnchorSpan == 72
MaxCount == 5
AnchorBase == daysFromCivil(2023, 12, 25)
Anchors ==
  {AnchorBase + i : i \in 0..AnchorSpan} \cup {parseISO(20250115), parseISO(20250131)}

WeeklyDetails ==
  {NoDetails} \cup {[NoDetails EXCEPT !.dayOfWeek = Some(w)] : w \in 0..6}
MonthlyDetails ==
  {NoDetails} \cup {[NoDetails EXCEPT !.dayOfMonth = Some(d)] : d \in {1, 15, 28, 29, 30, 31}}
YearlyDetails ==
  {NoDetails} \cup
  {[NoDetails EXCEPT !.monthOfYear = Some(m), !.dayOfYear = Some(d)] :
     m \in {2, 12}, d \in {1, 28, 29, 30, 31}}

Rules ==
  {[startDate |-> getDateString(a), repeatType |-> k, details |-> d] :
     a \in Anchors,
     k \in {"weekly", "monthly", "yearly", "custom"},
     d \in WeeklyDetails \cup MonthlyDetails \cup YearlyDetails}

ValidRule(r) ==
  CASE r.repeatType = "weekly"  -> r.details \in WeeklyDetails
    [] r.repeatType = "monthly" -> r.details \in MonthlyDetails
    [] r.repeatType = "yearly"  -> r.details \in YearlyDetails
    [] OTHER                    -> r.details = NoDetails

\* getCurrentDate() at the call, and the rule's end date, as offsets in days
\* from the anchor
TodayOffsets == {0 - 40, 0, 5}
EndOffsets == {0, 28, 31}
Horizons == {2, HorizonMonths}

\* an accounts row (the columns the engine reads) carrying rule r
accountOfRule(id, r, endDate, amount) ==
  [id            |-> id,
   amount        |-> amount,
   repeats       |-> r.repeatType,
   start_date    |-> r.startDate,
   has_end_date  |-> IF IsNull(endDate) THEN 0 ELSE 1,
   end_date      |-> endDate,
   day_of_week   |-> r.details.dayOfWeek,
   day_of_month  |-> r.details.dayOfMonth,
   month_of_year |-> r.details.monthOfYear,
   day_of_year   |-> r.details.dayOfYear,
   is_active     |-> 1]

DatesInit ==
  /\ rule \in {r \in Rules : ValidRule(r)}
  /\ chain = <<>>
  /\ gen = [call |-> "none"]
  /\ StoreInit

\* one more call of getNextPaymentDate, with the next iteration count
CallGetNextPaymentDate ==
  /\ gen.call = "none"
  /\ Len(chain) < MaxCount
  /\ chain' = Append(chain, getNextPaymentDate(parseISO(rule.startDate), rule.repeatType,
                                               Len(chain) + 1, rule.details))
  /\ UNCHANGED <<rule, gen>>
  /\ UNCHANGED storeVars

EndDates == {Null} \cup {Some(getDateString(parseISO(rule.startDate) + e)) : e \in EndOffsets}

\* a direct call of generatePaymentDates with the rule's parameters
CallGeneratePaymentDates ==
  /\ gen.call = "none"
  /\ chain = <<>>
  /\ \E months \in Horizons, endDate \in EndDates, off \in TodayOffsets :
       LET currentDate == parseISO(rule.startDate) + off
       IN gen' = [call    |-> "generatePaymentDates",
                  months  |-> months,
                  endDate |-> endDate,
                  today   |-> getDateString(currentDate),
                  dates   |-> generatePaymentDates(rule.startDate, rule.repeatType, months,
                                                   endDate, rule.details, currentDate)]
  /\ UNCHANGED <<rule, chain>>
  /\ UNCHANGED storeVars

\* the call generatePaymentsForAccount makes for an account carrying the rule
CallAccountPaymentDates ==
  /\ gen.call = "none"
  /\ chain = <<>>
  /\ \E endDate \in EndDates, off \in TodayOffsets :
       LET currentDate == parseISO(rule.startDate) + off
           account     == accountOfRule(1, rule, endDate, Null)
       IN gen' = [call    |-> "generatePaymentsForAccount",
                  account |-> account,
                  today   |-> getDateString(currentDate),
                  dates   |-> accountPaymentDates(account, currentDate)]
  /\ UNCHANGED <<rule, chain>>
  /\ UNCHANGED storeVars


(***************************************************************************)
(* generatePaymentDates for an anchor far in the past: today is so long    *)
(* after the anchor that the rule has about MaxIterations occurrences, or   *)
(* about half as many, up to the window's end.                             *)
(***************************************************************************)
OldAnchorSpan == 1
Kinds == {"weekly", "monthly", "yearly", "custom", "daily"}
OldRules ==
  {[startDate |-> getDateString(AnchorBase + i), repeatType |-> k, details |-> NoDetails] :
     i \in 0..OldAnchorSpan, k \in Kinds}

\* days from the anchor to a today with a little more than MaxIterations
\* occurrences before the window's end
DaysToCeiling(repeatType) ==
  CASE repeatType = "weekly" -> 7 * MaxIterations
    [] repeatType = "yearly" -> 365 * MaxIterations + 300
    [] OTHER                 -> 30 * MaxIterations + 500
OldOffsets(repeatType) == {DaysToCeiling(repeatType), DaysToCeiling(repeatType) \div 2}

CeilingInit ==
  /\ rule \in OldRules
  /\ chain = <<>>
  /\ gen = [call |-> "none"]
  /\ StoreInit

\* generatePaymentDates entered, up to the loop's first test
loopEntered(start, months, endDate, currentDate) ==
  [call      |-> "generatePaymentDates",
   pc        |-> "while",
   months    |-> months,
   endDate   |-> endDate,
   today     |-> getDateString(currentDate),
   maxDate   |-> windowMaxDate(start, currentDate, months),
   iteration |-> 1,
   nextDate  |-> getNextPaymentDate(start, rule.repeatType, 1, rule.details),
   dates     |-> <<>>,
   logged    |-> FALSE]

\* a call of generatePaymentDates long after the anchor, without an end date
\* or with today as the end date
CallLongAfterAnchor ==
  /\ gen.call = "none"
  /\ \E off \in OldOffsets(rule.repeatType), ends \in BOOLEAN :
       \E currentDate \in {parseISO(rule.startDate) + off} :
         gen' = loopEntered(parseISO(rule.startDate), HorizonMonths,
                            IF ends THEN Some(getDateString(currentDate)) ELSE Null,
                            currentDate)
  /\ UNCHANGED <<rule, chain>>
  /\ UNCHANGED storeVars

\* the loop's body: push, iteration++, the next date, the safety check
loopBody(call) ==
  [call EXCEPT !.dates = Append(call.dates, getDateString(call.nextDate)),
               !.iteration = call.iteration + 1,
               !.nextDate = getNextPaymentDate(parseISO(rule.startDate), rule.repeatType,
                                               call.iteration + 1, rule.details),
               !.logged = tooManyIterations(call.iteration + 1),
               !.pc = IF tooManyIterations(call.iteration + 1) THEN "returned" ELSE "while"]

\* one test of the while loop and, if it passes, one run of its body
LoopIteration ==
  /\ gen.call = "generatePaymentDates"
  /\ gen.pc = "while"
  /\ gen' = IF ~inWindow(gen.nextDate, gen.maxDate)
            THEN [gen EXCEPT !.pc = "returned"]
            ELSE IF pastEndDate(gen.nextDate, parseEnd(gen.endDate))
            THEN [gen EXCEPT !.pc = "returned"]
            ELSE loopBody(gen)
  /\ UNCHANGED <<rule, chain>>
  /\ UNCHANGED storeVars

CeilingNext ==
  \/ CallLongAfterAnchor
  \/ LoopIteration

SpecCeiling == CeilingInit /\ [][CeilingNext]_vars

(***************************************************************************)
(* Properties of the date evaluator (SpecDates).                           *)
(***************************************************************************)
leapYear(y) == IF y % 100 = 0 THEN y % 400 = 0 ELSE y % 4 = 0
monthLength(y, m) == <<31, IF leapYear(y) THEN 29 ELSE 28, 31, 30, 31, 30, 31, 31, 30, 31, 30, 31>>[m]
\* the last day of the calendar month that is `months` months after today's
windowEnd(todayString, months) ==
  LET t == (todayString \div 10000) * 12 + (((todayString \div 100) % 100) - 1) + months
  IN daysFromCivil(t \div 12, (t % 12) + 1, monthLength(t \div 12, (t % 12) + 1))
ruleStart == parseISO(rule.startDate)
\* the parameters of the recorded generator call
genMonths == IF gen.call = "generatePaymentDates" THEN gen.months ELSE HorizonMonths
genDetails == IF gen.call = "generatePaymentDates" THEN rule.details ELSE NoDetails
genEndDate ==
  IF gen.call = "generatePaymentDates" THEN gen.endDate
  ELSE IF gen.account.has_end_date = 1 THEN gen.account.end_date ELSE Null
genOccurrence(i) == getNextPaymentDate(ruleStart, rule.repeatType, i, genDetails)

\* C4: for a valid Weekly, Monthly or Yearly rule the occurrences 1, 2, ... are
\* strictly increasing and the first one is strictly after the anchor, so the
\* anchor itself is never emitted.
C4_StrictlyIncreasingChain ==
  rule.repeatType \in {"weekly", "monthly", "yearly"} =>
    /\ \A i \in 1..Len(chain) : ruleStart < chain[i]
    /\ \A i \in 1..(Len(chain) - 1) : chain[i] < chain[i + 1]

\* C4 witness: a Weekly rule whose dayOfWeek is the anchor's own weekday has
\* been evaluated MaxCount times, the first occurrence a full week later.
C4_Witness ==
  /\ rule.repeatType = "weekly"
  /\ rule.details.dayOfWeek = Some(getDay(ruleStart))
  /\ Len(chain) = MaxCount
  /\ chain[1] = ruleStart + 7

\* C5 (as claimed): a Monthly rule with dayOfMonth = 31 anchored in January has
\* its February occurrence on the last day of February and its March
\* occurrence on March 31; anchor 2025-01-31, today 2025-01-31, horizon 2
\* gives exactly 2025-02-28, 2025-03-31.
C5_MonthlyClampPerMonth ==
  (/\ rule.repeatType = "monthly"
   /\ rule.details.dayOfMonth = Some(31)
   /\ getMonth1(ruleStart) = 1) =>
    LET y == getFullYear(ruleStart)
    IN /\ Len(chain) >= 2 =>
            \E i \in 1..2 : chain[i] = daysFromCivil(y, 2, monthLength(y, 2))
       /\ Len(chain) >= 3 =>
            \E i \in 2..3 : chain[i] = daysFromCivil(y, 3, 31)
       /\ (/\ gen.call = "generatePaymentDates"
           /\ rule.startDate = 20250131
           /\ gen.today = 20250131
           /\ gen.months = 2
           /\ IsNull(gen.endDate)) => gen.dates = <<20250228, 20250331>>

\* C6: a Yearly rule with monthOfYear = 2, dayOfYear = 29 anchored in a leap
\* year has every occurrence in February of consecutive years, on the 29th in
\* a leap year and on the 28th otherwise.
C6_YearlyLeapDay ==
  (/\ rule.repeatType = "yearly"
   /\ rule.details.monthOfYear = Some(2)
   /\ rule.details.dayOfYear = Some(29)
   /\ leapYear(getFullYear(ruleStart))) =>
    \A i \in 1..Len(chain) :
      LET c == civilFromDays(chain[i])
      IN /\ c[2] = 2
         /\ c[3] = (IF leapYear(c[1]) THEN 29 ELSE 28)
         /\ c[1] = getFullYear(chain[1]) + (i - 1)
         /\ getFullYear(chain[1]) \in {getFullYear(ruleStart), getFullYear(ruleStart) + 1}

\* C6 witness: such a rule evaluated far enough to give a Feb 28 followed, in
\* a later leap year, by a Feb 29.
C6_Witness ==
  /\ rule.repeatType = "yearly"
  /\ rule.details.monthOfYear = Some(2)
  /\ rule.details.dayOfYear = Some(29)
  /\ leapYear(getFullYear(ruleStart))
  /\ \E i, j \in 1..Len(chain) :
       /\ i < j
       /\ getDate(chain[i]) = 28
       /\ getDate(chain[j]) = 29

\* C7: generatePaymentDates returns, in increasing order, exactly the rule's
\* occurrences 1, 2, ... up to the last one on or before the end of the
\* calendar month of today + horizon months (and not after the rule's end
\* date); the edge is counted from today and has month granularity.
C7_WindowFromToday ==
  gen.call = "generatePaymentDates" =>
    LET edge    == windowEnd(gen.today, gen.months)
        kept(i) == /\ genOccurrence(i) <= edge
                   /\ IsNull(gen.endDate) \/ getDateString(genOccurrence(i)) <= gen.endDate[1]
        n       == Len(gen.dates)
    IN /\ n < MaxIterations
       /\ \A i \in 1..n : gen.dates[i] = getDateString(genOccurrence(i)) /\ kept(i)
       /\ ~kept(n + 1)
       /\ \A i \in 1..(n - 1) : gen.dates[i] < gen.dates[i + 1]
       /\ (/\ rule = [startDate |-> 20250115, repeatType |-> "monthly", details |-> NoDetails]
           /\ gen.months = 3
           /\ gen.today = 20250120
           /\ IsNull(gen.endDate)) => gen.dates = <<20250215, 20250315, 20250415>>

\* C7 witness: a call whose today is not the anchor returned a last date
\* that is later than today + horizon months, in the same calendar month.
C7_Witness ==
  /\ gen.call = "generatePaymentDates"
  /\ IsNull(gen.endDate)
  /\ gen.today # rule.startDate
  /\ Len(gen.dates) >= 2
  /\ parseISO(gen.dates[Len(gen.dates)]) > addMonthsFns(parseISO(gen.today), gen.months)

\* C8: with an end date, no generated date is after it, an occurrence on the
\* end date is kept, and the sequence stops at the first occurrence after it;
\* the same holds for the dates generatePaymentsForAccount asks for when
\* has_end_date is set.
C8_EndDateRespected ==
  (gen.call # "none" /\ ~IsNull(genEndDate)) =>
    LET n    == Len(gen.dates)
        edge == windowEnd(gen.today, genMonths)
    IN /\ \A i \in 1..n : gen.dates[i] <= genEndDate[1]
       /\ \A i \in 1..(n + 1) :
            (/\ getDateString(genOccurrence(i)) <= genEndDate[1]
             /\ genOccurrence(i) <= edge) => (i <= n /\ gen.dates[i] = getDateString(genOccurrence(i)))

\* C8 witness: the last date returned is the end date itself and the next
\* occurrence, inside the window, was cut by the end date.
C8_Witness ==
  /\ gen.call = "generatePaymentsForAccount"
  /\ ~IsNull(genEndDate)
  /\ Len(gen.dates) >= 1
  /\ gen.dates[Len(gen.dates)] = genEndDate[1]
  /\ genOccurrence(Len(gen.dates) + 1) <= windowEnd(gen.today, genMonths)

\* C10 (as claimed): the dates generatePaymentsForAccount asks for follow the
\* account's day_of_week / day_of_month / month_of_year and day_of_year.
C10_DatesFollowStoredParameters ==
  gen.call = "generatePaymentsForAccount" =>
    \A i \in 1..Len(gen.dates) :
      LET a == gen.account
          d == parseISO(gen.dates[i])
          c == civilFromDays(d)
      IN /\ (a.repeats = "weekly" /\ ~IsNull(a.day_of_week)) => getDay(d) = a.day_of_week[1]
         /\ (a.repeats = "monthly" /\ ~IsNull(a.day_of_month)) =>
              c[3] = Min(a.day_of_month[1], monthLength(c[1], c[2]))
         /\ (a.repeats = "yearly" /\ ~IsNull(a.month_of_year) /\ ~IsNull(a.day_of_year)) =>
              /\ c[2] = a.month_of_year[1]
              /\ c[3] = Min(a.day_of_year[1], monthLength(c[1], c[2]))

(***************************************************************************)
(* The store: the accounts and payments tables and the row-level           *)
(* statements of accounts.js and payments.js.                              *)
(***************************************************************************)
\* accountData as handleSave builds it from the form
accountData(amount, repeats, startDate, endDate) ==
  [amount        |-> amount,
   repeats       |-> repeats,
   start_date    |-> startDate,
   has_end_date  |-> IF IsNull(endDate) THEN 0 ELSE 1,
   end_date      |-> endDate,
   day_of_week   |-> Null,
   day_of_month  |-> Null,
   month_of_year |-> Null,
   day_of_year   |-> Null]

\* the forms the user saves: a monthly rule with two default amounts, the
\* same rule with an end date, a weekly rule without amount
Forms ==
  {accountData(Some(10), "monthly", 20250228, Null),
   accountData(Some(20), "monthly", 20250228, Null),
   accountData(Some(10), "monthly", 20250228, Some(20250401)),
   accountData(Null, "weekly", 20250417, Null)}

\* x || null
orNull(x) == IF x = Some(0) THEN Null ELSE x
\* a default of 1 for an account without amount
amountOrOne(x) == IF IsNull(x) THEN 1 ELSE x[1]

\* account.amount || 0
amountOrZero(x) == IF IsNull(x) THEN 0 ELSE x[1]

\* INSERT INTO accounts: the recurring detail columns are not written
createAccountRow(id, data) ==
  [id            |-> id,
   amount        |-> orNull(data.amount),
   repeats       |-> data.repeats,
   start_date    |-> data.start_date,
   has_end_date  |-> data.has_end_date,
   end_date      |-> data.end_date,
   day_of_week   |-> Null,
   day_of_month  |-> Null,
   month_of_year |-> Null,
   day_of_year   |-> Null,
   is_active     |-> 1]

\* UPDATE accounts SET ... WHERE id = ?
updateAccountRow(row, data) ==
  [row EXCEPT !.amount = data.amount, !.repeats = data.repeats,
              !.start_date = data.start_date, !.has_end_date = data.has_end_date,
              !.end_date = data.end_date]
updateAccount(rows, id, data) ==
  {IF r.id = id THEN updateAccountRow(r, data) ELSE r : r \in rows}

\* the fields of an account object that generatePaymentsForAccount reads
runAccount(id, a) ==
  [id |-> id, amount |-> a.amount, repeats |-> a.repeats, start_date |-> a.start_date,
   has_end_date |-> a.has_end_date, end_date |-> a.end_date]

\* the rule of an account object
ruleOf(a) ==
  [repeats |-> a.repeats, start_date |-> a.start_date,
   has_end_date |-> a.has_end_date, end_date |-> a.end_date]

\* SELECT * FROM accounts WHERE id = ?
getAccountById(rows, id) == {r \in rows : r.id = id}

\* SELECT * FROM accounts WHERE is_active = 1 ORDER BY created_at DESC
RECURSIVE newestFirst(_)
newestFirst(rows) ==
  IF rows = {}
  THEN <<>>
  ELSE LET top == CHOOSE r \in rows : \A q \in rows : q.id <= r.id
       IN <<runAccount(top.id, top)>> \o newestFirst(rows \ {top})
getAllAccounts(rows) == newestFirst({r \in rows : r.is_active = 1})

\* a lookup that finds no row
paymentNeverExists(rows, accountId, dueDate) == FALSE

\* SELECT id FROM payments WHERE account_id = ? AND due_date = ?
paymentExists(rows, accountId, dueDate) ==
  \E p \in rows : p.account_id = accountId /\ p.due_date = dueDate

\* a payments table without the UNIQUE constraint
noUniqueConstraint(rows, accountId, dueDate) == FALSE

\* UNIQUE(account_id, due_date): an INSERT of the pair is rejected
uniqueViolation(rows, accountId, dueDate) ==
  \E p \in rows : p.account_id = accountId /\ p.due_date = dueDate

\* the row createPayment inserts for generatePaymentsForAccount
newPayment(id, account, dueDate) ==
  [id         |-> id,
   account_id |-> account.id,
   due_date   |-> dueDate,
   amount     |-> amountOrZero(account.amount),
   is_paid    |-> 0,
   paid_date  |-> Null,
   note       |-> Null]

\* INSERT OR REPLACE: the existing row is written afresh under its id
replaceExistingPayment(rows, account, dueDate) ==
  {IF p.account_id = account.id /\ p.due_date = dueDate
   THEN newPayment(p.id, account, dueDate) ELSE p : p \in rows}

\* an upsert: the existing row takes the account's default amount
overwriteExistingPayment(rows, account, dueDate) ==
  {IF p.account_id = account.id /\ p.due_date = dueDate
   THEN [p EXCEPT !.amount = amountOrZero(account.amount)] ELSE p : p \in rows}

\* "skipped++; continue": the existing row is not written
skipExistingPayment(rows, account, dueDate) == rows

(***************************************************************************)
(* The date engine's specification: the calls of the evaluator and the     *)
(* generator, and a second run of an account on a later day.               *)
(***************************************************************************)
\* the loop of generatePaymentsForAccount(account, true) from date i on, as
\* one function of the table: counts = <<created, skipped>>
RECURSIVE skipExistingRun(_, _, _, _, _)
skipExistingRun(rows, account, dates, i, counts) ==
  IF i > Len(dates)
  THEN [rows |-> rows, created |-> counts[1], skipped |-> counts[2]]
  ELSE IF paymentExists(rows, account.id, dates[i])
  THEN skipExistingRun(skipExistingPayment(rows, account, dates[i]), account, dates,
                       i + 1, <<counts[1], counts[2] + 1>>)
  ELSE skipExistingRun(rows \cup {newPayment(Cardinality(rows) + 1, account, dates[i])},
                       account, dates, i + 1, <<counts[1] + 1, counts[2]>>)

\* the days that pass before the next run
LaterOffsets == {1, 31}

\* the record of two runs for the account: held is the table the run at
\* today left, run what the SkipExisting run on the later day returned and
\* the table it left
ranAgain(first, laterDate, held, laterDates) ==
  [call       |-> "generatePaymentsForAccount twice",
   account    |-> first.account,
   today      |-> first.today,
   dates      |-> first.dates,
   later      |-> getDateString(laterDate),
   held       |-> held,
   laterDates |-> laterDates,
   run        |-> skipExistingRun(held, first.account, laterDates, 1, <<0, 0>>)]

\* the account's run has completed on an empty table; a SkipExisting run of
\* the same account follows on a later day
RunAgainLater ==
  /\ gen.call = "generatePaymentsForAccount"
  /\ \E off \in LaterOffsets :
       gen' = ranAgain(gen, parseISO(gen.today) + off,
                       skipExistingRun({}, gen.account, gen.dates, 1, <<0, 0>>).rows,
                       accountPaymentDates(gen.account, parseISO(gen.today) + off))
  /\ UNCHANGED <<rule, chain>>
  /\ UNCHANGED storeVars

DatesNext ==
  \/ CallGetNextPaymentDate
  \/ CallGeneratePaymentDates
  \/ CallAccountPaymentDates
  \/ RunAgainLater

SpecDates == DatesInit /\ [][DatesNext]_vars

\* a DELETE without its WHERE clause
deleteEveryPayment(rows, accountId) == {}

\* a DELETE that removes no row
deleteNoPayments(rows, accountId) == rows

\* DELETE FROM payments WHERE account_id = ? AND is_paid = 0
deleteUnpaidByAccountId(rows, accountId) ==
  {p \in rows : p.account_id # accountId \/ p.is_paid = 1}

\* DELETE FROM payments WHERE account_id = ?
deletePaymentsByAccountId(rows, accountId) == {p \in rows : p.account_id # accountId}

\* SELECT * FROM payments WHERE account_id = ?
getPaymentsByAccountId(rows, accountId) == {p \in rows : p.account_id = accountId}

\* ORDER BY due_date DESC
RECURSIVE latestFirst(_)
latestFirst(rows) ==
  IF rows = {}
  THEN <<>>
  ELSE LET top == CHOOSE r \in rows : \A q \in rows : q.due_date <= r.due_date
       IN <<top>> \o latestFirst(rows \ {top})

\* UPDATE payments SET account_id, due_date, amount, is_paid, paid_date, note WHERE id = ?
updatePayment(rows, id, data) ==
  {IF p.id = id THEN [data EXCEPT !.id = id] ELSE p : p \in rows}

\* UPDATE payments SET is_paid = 1, paid_date = now, note = ? WHERE id = ?
markAsPaid(rows, id, note, now) ==
  {IF p.id = id THEN [p EXCEPT !.is_paid = 1, !.paid_date = Some(now), !.note = note]
   ELSE p : p \in rows}

\* UPDATE payments SET is_paid = 0, paid_date = NULL WHERE id = ?
markAsUnpaid(rows, id) ==
  {IF p.id = id THEN [p EXCEPT !.is_paid = 0, !.paid_date = Null] ELSE p : p \in rows}

(***************************************************************************)
(* The operations of paymentGenerator.js and the screens.  A step is one   *)
(* database statement together with the synchronous code that follows it   *)
(* up to the next await.                                                   *)
(***************************************************************************)
InFlight(task) == task.pc \notin {"idle", "done", "failed"}

\* the record of a completed SkipExisting run
ranSkip(last, task) ==
  IF task.pc = "returned" /\ task.skipExisting
  THEN [last EXCEPT ![task.account[1].id] = Some(ruleOf(task.account[1]))]
  ELSE last

\* the record of a run that a failing write to the payments table ended
ranFailed(last, task) ==
  IF task.pc = "failed" /\ task.error = "INSERT failed"
  THEN [last EXCEPT ![task.account[1].id] =
          Some([op |-> task.op,
                rule |-> ruleOf(task.account[1]),
                skipExisting |-> task.skipExisting,
                made |-> {p.due_date : p \in {q \in payments \ task.entry :
                                                q.account_id = task.account[1].id}}])]
  ELSE last

\* the failed run of this account that a new run repeats
retryOf(account, skipExisting) ==
  IF IsNull(lastFailed[account.id])
  THEN Null
  ELSE IF /\ lastFailed[account.id][1].rule = ruleOf(account)
          /\ lastFailed[account.id][1].skipExisting = skipExisting
  THEN lastFailed[account.id]
  ELSE Null

\* the write changes a row of the account
touches(newStore, accountId) ==
  \E p \in (payments \ newStore) \cup (newStore \ payments) : p.account_id = accountId

\* an operation in flight notes a write of another operation or of a screen:
\* it is no longer alone, and no longer the only writer of its account's
\* rows if the write changed one of them
overtaken(task, newStore) ==
  [task EXCEPT !.alone = FALSE,
               !.own = IF IsNull(task.account) THEN FALSE
                       ELSE task.own /\ ~touches(newStore, task.account[1].id)]

\* the step of slot t: the payments table becomes newStore, the slot newTask.
\* A write to the table is noted in the other operations in flight.
Commit(t, newTask, newStore) ==
  /\ payments' = newStore
  /\ tasks' = [u \in TaskIds |->
                 IF u = t THEN newTask
                 ELSE IF newStore # payments /\ InFlight(tasks[u])
                 THEN overtaken(tasks[u], newStore)
                 ELSE tasks[u]]
  /\ lastRun' = ranSkip(IF newStore # payments THEN NoRuns ELSE lastRun, newTask)
  /\ lastFailed' = ranFailed(IF newStore # payments THEN NoRuns ELSE lastFailed, newTask)

\* entry of generatePaymentsForAccount(account, skipExisting): the dates are
\* computed and the loop reaches its first statement
runEntered(task, account, skipExisting, store, alone, dates) ==
  [task EXCEPT !.account = Some(account),
               !.skipExisting = skipExisting,
               !.dates = dates,
               !.i = 1,
               !.created = 0,
               !.skipped = 0,
               !.pc = IF dates = <<>> THEN "returned"
                      ELSE IF skipExisting THEN "exists" ELSE "create",
               !.entry = store,
               !.prior = (skipExisting /\ store = payments
                          /\ lastRun[account.id] = Some(ruleOf(account))),
               !.alone = alone,
               !.own = TRUE,
               !.retry = IF skipExisting /\ store = payments
                         THEN retryOf(account, TRUE)
                         ELSE task.retry]
enterRun(task, account, skipExisting, store, alone) ==
  runEntered(task, account, skipExisting, store, alone, accountPaymentDates(account, today))

\* the loop of generatePaymentsForAccount moves to the next date, or returns
nextDueDate(task) ==
  [task EXCEPT !.i = task.i + 1,
               !.pc = IF task.i + 1 > Len(task.dates) THEN "returned"
                      ELSE IF task.skipExisting THEN "exists" ELSE "create"]

\* an exception leaves the operation
thrown(task, error) == [task EXCEPT !.pc = "failed", !.error = error]

\* a logAction that lets the sink's error through
logActionRethrows(sinkState) == sinkState = "down"

\* logAction: whether the call throws.  The INSERT is inside try/catch and
\* the catch does not rethrow
logActionThrows(sinkState) == FALSE

\* the operation after an awaited logAction: task if logAction returned
afterLog(task) ==
  IF logActionThrows(sink) THEN thrown(task, "log insert failed") ELSE task

\* n calls of logAction: each adds a row unless the sink is down
Logged(n) == logs' = IF sink = "up" THEN logs + n ELSE logs

\* The code that follows the last statement of an operation (the return to
\* the caller, the caller's continuation up to its next await, the settling
\* of the promise) runs before any other callback is served.
Settled == \A u \in TaskIds : tasks[u].pc \notin {"returned", "done", "failed"}

\* the lowest free slot takes the next operation
FreeSlot(t) ==
  /\ Settled
  /\ ops < MaxOps
  /\ tasks[t].pc = "idle"
  /\ \A u \in TaskIds : u < t => tasks[u].pc # "idle"

Started ==
  /\ ops' = ops + 1
  /\ UNCHANGED <<rule, chain, gen, today, detail, sink, writes, faults, appVars>>

Stepped ==
  UNCHANGED <<rule, chain, gen, today, detail, ops, sink, writes, faults, appVars>>

\* AccountDetail handleSave, create mode: createAccount, then a run that
\* does not skip
HandleSaveCreate(t, data) ==
  /\ FreeSlot(t)
  /\ lastAccountId < MaxAccounts
  /\ accounts' = accounts \cup {createAccountRow(lastAccountId + 1, data)}
  /\ lastAccountId' = lastAccountId + 1
  /\ Commit(t, enterRun([IdleTask EXCEPT !.op = "handleSave"],
                        runAccount(lastAccountId + 1, data), FALSE, payments, TRUE),
            payments)
  /\ Logged(1)
  /\ UNCHANGED lastPaymentId
  /\ Started

\* AccountDetail handleSave, edit mode: updateAccount, then a SkipExisting run
HandleSaveEdit(t, id, data) ==
  /\ FreeSlot(t)
  /\ getAccountById(accounts, id) # {}
  /\ accounts' = updateAccount(accounts, id, data)
  /\ Commit(t, enterRun([IdleTask EXCEPT !.op = "handleSave"],
                        runAccount(id, data), TRUE, payments, TRUE),
            payments)
  /\ Logged(1)
  /\ UNCHANGED <<lastAccountId, lastPaymentId>>
  /\ Started

\* getAllAccounts() returned all: the first account's turn, or the end
allStarted(op, all, skipExisting) ==
  IF all = <<>>
  THEN IF op = "checkAndGenerateMissingPayments"
       THEN [IdleTask EXCEPT !.op = op, !.pc = "done"]
       ELSE afterLog([IdleTask EXCEPT !.op = op, !.pc = "done"])
  ELSE IF op = "regeneratePaymentsForAllAccounts"
  THEN [IdleTask EXCEPT !.op = op, !.pc = "delete", !.account = Some(Head(all)),
                        !.queue = Tail(all), !.read = all]
  ELSE enterRun([IdleTask EXCEPT !.op = op, !.queue = Tail(all), !.read = all],
                Head(all), skipExisting, payments, TRUE)

\* generatePaymentsForAllAccounts(true), from Settings
GeneratePaymentsForAllAccounts(t) ==
  /\ FreeSlot(t)
  /\ Commit(t, allStarted("generatePaymentsForAllAccounts", getAllAccounts(accounts), TRUE),
            payments)
  /\ Logged(IF getAllAccounts(accounts) = <<>> THEN 1 ELSE 0)
  /\ UNCHANGED <<accounts, lastAccountId, lastPaymentId>>
  /\ Started

\* regeneratePaymentsForAllAccounts(), from Settings
RegeneratePaymentsForAllAccounts(t) ==
  /\ FreeSlot(t)
  /\ Commit(t, allStarted("regeneratePaymentsForAllAccounts", getAllAccounts(accounts), FALSE),
            payments)
  /\ Logged(IF getAllAccounts(accounts) = <<>> THEN 1 ELSE 0)
  /\ UNCHANGED <<accounts, lastAccountId, lastPaymentId>>
  /\ Started

\* checkAndGenerateMissingPayments()
CheckAndGenerateMissingPayments(t) ==
  /\ FreeSlot(t)
  /\ Commit(t, allStarted("checkAndGenerateMissingPayments", getAllAccounts(accounts), TRUE),
            payments)
  /\ UNCHANGED <<accounts, lastAccountId, lastPaymentId, logs>>
  /\ Started

\* getAccountById(accountId) returned found: "Account not found", or pc
oneStarted(op, id, found, pc) ==
  IF found = {}
  THEN thrown([IdleTask EXCEPT !.op = op], "Account not found")
  ELSE [IdleTask EXCEPT !.op = op, !.pc = pc,
                        !.account = Some(runAccount(id, CHOOSE r \in found : TRUE))]

\* a regeneration that follows a failed one of the same account
repeating(task) ==
  IF task.pc = "failed" THEN task
  ELSE IF IsNull(retryOf(task.account[1], FALSE)) THEN task
  ELSE IF retryOf(task.account[1], FALSE)[1].op
            \in {"regeneratePaymentsForAccount", "regeneratePaymentsForAllAccounts"}
  THEN [task EXCEPT !.retry = retryOf(task.account[1], FALSE)]
  ELSE task

\* regeneratePaymentsForAccount(accountId)
RegeneratePaymentsForAccount(t, id) ==
  /\ FreeSlot(t)
  /\ Commit(t, repeating(oneStarted("regeneratePaymentsForAccount", id,
                                    getAccountById(accounts, id), "delete")),
            payments)
  /\ UNCHANGED <<accounts, lastAccountId, lastPaymentId, logs>>
  /\ Started

\* updatePaymentsForAccount(accountId)
UpdatePaymentsForAccount(t, id) ==
  /\ FreeSlot(t)
  /\ Commit(t, oneStarted("updatePaymentsForAccount", id,
                          getAccountById(accounts, id), "load"),
            payments)
  /\ UNCHANGED <<accounts, lastAccountId, lastPaymentId, logs>>
  /\ Started

\* updatePaymentsForAccount: the unpaid payments whose amount differs from
\* the account's, when the account has an amount
staleUnpaid(rows, account) ==
  IF amountOrZero(account.amount) # 0
  THEN {p \in rows : p.is_paid = 0 /\ p.amount # account.amount[1]}
  ELSE {}

\* updatePaymentsForAccount after getPaymentsByAccountId: the first update,
\* or the SkipExisting run when there is none
paymentsLoaded(task, stale) ==
  IF stale = <<>>
  THEN enterRun(task, task.account[1], TRUE, payments, TRUE)
  ELSE [task EXCEPT !.pc = "update", !.unpaid = stale]

LoadPaymentsStep(t) ==
  /\ Settled
  /\ tasks[t].pc = "load"
  /\ Commit(t, paymentsLoaded(tasks[t],
                              latestFirst(staleUnpaid(
                                getPaymentsByAccountId(payments, tasks[t].account[1].id),
                                tasks[t].account[1]))),
            payments)
  /\ UNCHANGED <<accounts, lastAccountId, lastPaymentId, logs>>
  /\ Stepped

\* updatePaymentsForAccount: updatePayment(payment.id, {...payment, amount})
\* for the next stale payment, then the next one or the SkipExisting run
amountUpdated(task, store) ==
  IF Tail(task.unpaid) = <<>>
  THEN enterRun([task EXCEPT !.unpaid = <<>>], task.account[1], TRUE, store, TRUE)
  ELSE [task EXCEPT !.unpaid = Tail(task.unpaid)]

UpdateAmountStep(t) ==
  /\ Settled
  /\ tasks[t].pc = "update"
  /\ \E store \in {updatePayment(payments, Head(tasks[t].unpaid).id,
                                 [Head(tasks[t].unpaid) EXCEPT
                                    !.amount = tasks[t].account[1].amount[1]])} :
       Commit(t, amountUpdated(tasks[t], store), store)
  /\ Logged(1)
  /\ UNCHANGED <<accounts, lastAccountId, lastPaymentId>>
  /\ Stepped

\* generatePaymentsForAccount: "skipExisting && await paymentExists(...)"
PaymentExistsStep(t) ==
  /\ Settled
  /\ tasks[t].pc = "exists"
  /\ IF paymentExists(payments, tasks[t].account[1].id, tasks[t].dates[tasks[t].i])
     THEN Commit(t, nextDueDate([tasks[t] EXCEPT !.skipped = tasks[t].skipped + 1]),
                 skipExistingPayment(payments, tasks[t].account[1],
                                     tasks[t].dates[tasks[t].i]))
     ELSE Commit(t, [tasks[t] EXCEPT !.pc = "create"], payments)
  /\ UNCHANGED <<accounts, lastAccountId, lastPaymentId, logs>>
  /\ Stepped

\* generatePaymentsForAccount: "await createPayment({...}); created++"
CreatePaymentStep(t) ==
  /\ Settled
  /\ tasks[t].pc = "create"
  /\ IF writes = "failing"
     THEN /\ Commit(t, thrown(tasks[t], "INSERT failed"), payments)
          /\ UNCHANGED <<lastPaymentId, logs>>
     ELSE IF uniqueViolation(payments, tasks[t].account[1].id, tasks[t].dates[tasks[t].i])
     THEN /\ Commit(t, thrown(tasks[t], "UNIQUE constraint failed"), payments)
          /\ UNCHANGED <<lastPaymentId, logs>>
     ELSE /\ Commit(t, afterLog(nextDueDate([tasks[t] EXCEPT
                                               !.created = tasks[t].created + 1])),
                    payments \cup {newPayment(lastPaymentId + 1, tasks[t].account[1],
                                              tasks[t].dates[tasks[t].i])})
          /\ lastPaymentId' = lastPaymentId + 1
          /\ Logged(1)
  /\ UNCHANGED <<accounts, lastAccountId>>
  /\ Stepped

\* regenerate...: "await deletePaymentsByAccountId(account.id)", then the run
\* that does not skip
DeletePaymentsStep(t) ==
  /\ Settled
  /\ tasks[t].pc = "delete"
  /\ IF writes = "failing"
     THEN /\ Commit(t, thrown(tasks[t], "DELETE failed"), payments)
          /\ UNCHANGED logs
     ELSE /\ \E store \in {deletePaymentsByAccountId(payments, tasks[t].account[1].id)} :
               Commit(t, afterLog([enterRun(tasks[t], tasks[t].account[1], FALSE, store, TRUE)
                                     EXCEPT !.entry = payments]),
                      store)
          /\ Logged(1)
  /\ UNCHANGED <<accounts, lastAccountId, lastPaymentId>>
  /\ Stepped

\* totals that keep the last account's counts only
totalledLast(task) ==
  [task EXCEPT !.totalCreated = task.created,
               !.totalSkipped = task.skipped,
               !.totalExpected = Len(task.dates),
               !.results = Append(task.results,
                                  [id |-> task.account[1].id, created |-> task.created,
                                   skipped |-> task.skipped, total |-> Len(task.dates)])]

\* the totals of an ...ForAllAccounts operation after an account's run
totalled(task) ==
  [task EXCEPT !.totalCreated = task.totalCreated + task.created,
               !.totalSkipped = task.totalSkipped + task.skipped,
               !.totalExpected = task.totalExpected + Len(task.dates),
               !.results = Append(task.results,
                                  [id |-> task.account[1].id, created |-> task.created,
                                   skipped |-> task.skipped, total |-> Len(task.dates)])]

\* the next account of an ...ForAllAccounts operation, or its end
nextAccount(task) ==
  IF task.queue = <<>>
  THEN [task EXCEPT !.pc = "done"]
  ELSE IF task.op = "regeneratePaymentsForAllAccounts"
  THEN [task EXCEPT !.pc = "delete", !.account = Some(Head(task.queue)),
                    !.queue = Tail(task.queue)]
  ELSE enterRun([task EXCEPT !.queue = Tail(task.queue)], Head(task.queue), TRUE,
                payments, TRUE)

\* the calls of logAction the caller makes once the run has returned: the
\* ...ForAllAccounts operations log after the last account
\* (checkAndGenerateMissingPayments only if it created something),
\* regeneratePaymentsForAccount logs, the others do not
endLogs(task) ==
  IF task.op \in {"generatePaymentsForAllAccounts", "regeneratePaymentsForAllAccounts"}
  THEN (IF task.queue = <<>> THEN 1 ELSE 0)
  ELSE IF task.op = "checkAndGenerateMissingPayments"
  THEN (IF task.queue = <<>> /\ task.totalCreated + task.created > 0 THEN 1 ELSE 0)
  ELSE IF task.op = "regeneratePaymentsForAccount" THEN 1 ELSE 0

\* the caller after the run has returned
continued(task) ==
  IF task.op \in {"generatePaymentsForAllAccounts",
                  "regeneratePaymentsForAllAccounts",
                  "checkAndGenerateMissingPayments"}
  THEN nextAccount(totalled(task))
  ELSE [task EXCEPT !.pc = "done"]

\* generatePaymentsForAccount returned { created, skipped, total } to its caller
Continue(t) ==
  /\ tasks[t].pc = "returned"
  /\ IF endLogs(tasks[t]) > 0
     THEN Commit(t, afterLog(continued(tasks[t])), payments)
     ELSE Commit(t, continued(tasks[t]), payments)
  /\ Logged(endLogs(tasks[t]))
  /\ UNCHANGED <<accounts, lastAccountId, lastPaymentId>>
  /\ Stepped

\* the operation's promise settled and its result was consumed
Release(t) ==
  /\ tasks[t].pc \in {"done", "failed"}
  /\ Commit(t, IdleTask, payments)
  /\ UNCHANGED <<accounts, lastAccountId, lastPaymentId, logs>>
  /\ Stepped

(***************************************************************************)
(* The user payment operations: PaymentDashboard swipes and PaymentDetail. *)
(***************************************************************************)
\* a statement issued by a screen, outside the operations in flight
ScreenCommit(newStore) == Commit(0, IdleTask, newStore)

UserActed ==
  /\ Settled
  /\ ops < MaxOps
  /\ ops' = ops + 1
  /\ UNCHANGED <<rule, chain, gen, today, accounts, lastAccountId, lastPaymentId,
                 sink, writes, faults, appVars>>

\* getCurrentDateTimeUTC(), to the day
now == getDateString(today)

\* PaymentDashboard handleSwipeRight: markAsPaid(payment.id, '')
MarkAsPaid(id) ==
  /\ id \in {p.id : p \in payments}
  /\ ScreenCommit(markAsPaid(payments, id, Some(""), now))
  /\ Logged(1)
  /\ UNCHANGED detail
  /\ UserActed

\* PaymentDashboard handleSwipeLeft: markAsUnpaid(payment.id)
MarkAsUnpaid(id) ==
  /\ \E p \in payments : p.id = id /\ p.is_paid = 1
  /\ ScreenCommit(markAsUnpaid(payments, id))
  /\ Logged(1)
  /\ UNCHANGED detail
  /\ UserActed

\* PaymentDetail loadPayment: getPaymentById(paymentId)
OpenPaymentDetail(id) ==
  /\ Settled
  /\ ops < MaxOps
  /\ IsNull(detail)
  /\ \E p \in payments : p.id = id /\ detail' = Some(p)
  /\ UNCHANGED <<rule, chain, gen, today, accounts, payments, lastAccountId, lastPaymentId,
                 tasks, lastRun, ops, logs, sink, writes, faults, lastFailed, appVars>>

\* an amount typed by the user that is no account's default
CustomAmount == 15

\* what the user sets in PaymentDetail before saving
PaymentEdits(payment) ==
  {[amount |-> payment.amount, is_paid |-> 0,
    note |-> IF IsNull(payment.note) THEN Some("") ELSE payment.note],
   [amount |-> payment.amount, is_paid |-> 1,
    note |-> IF IsNull(payment.note) THEN Some("") ELSE payment.note],
   [amount |-> CustomAmount, is_paid |-> 1, note |-> Some("memo")]}

\* PaymentDetail handleSave: updatePayment(paymentId, {...payment, amount,
\* is_paid, paid_date, note}) with the payment as it was loaded
SavePaymentDetail ==
  /\ ~IsNull(detail)
  /\ \E edit \in PaymentEdits(detail[1]) :
       ScreenCommit(updatePayment(payments, detail[1].id,
                                  [detail[1] EXCEPT
                                     !.amount = edit.amount,
                                     !.is_paid = edit.is_paid,
                                     !.paid_date = IF edit.is_paid = 1 THEN Some(now) ELSE Null,
                                     !.note = edit.note]))
  /\ detail' = Null
  /\ Logged(1)
  /\ UserActed

(***************************************************************************)
(* The app: any operation may start while others are in flight.            *)
(***************************************************************************)
Init ==
  /\ rule = [startDate |-> 20250131, repeatType |-> "monthly", details |-> NoDetails]
  /\ chain = <<>>
  /\ gen = [call |-> "none"]
  /\ StoreInit

Next ==
  \/ \E t \in TaskIds, data \in Forms : HandleSaveCreate(t, data)
  \/ \E t \in TaskIds, id \in AccountIds, data \in Forms : HandleSaveEdit(t, id, data)
  \/ \E t \in TaskIds : GeneratePaymentsForAllAccounts(t)
  \/ \E t \in TaskIds : RegeneratePaymentsForAllAccounts(t)
  \/ \E t \in TaskIds : CheckAndGenerateMissingPayments(t)
  \/ \E t \in TaskIds, id \in AccountIds : RegeneratePaymentsForAccount(t, id)
  \/ \E t \in TaskIds, id \in AccountIds : UpdatePaymentsForAccount(t, id)
  \/ \E t \in TaskIds : LoadPaymentsStep(t)
  \/ \E t \in TaskIds : UpdateAmountStep(t)
  \/ \E t \in TaskIds : PaymentExistsStep(t)
  \/ \E t \in TaskIds : CreatePaymentStep(t)
  \/ \E t \in TaskIds : DeletePaymentsStep(t)
  \/ \E t \in TaskIds : Continue(t)
  \/ \E t \in TaskIds : Release(t)
  \/ \E id \in 1..lastPaymentId : MarkAsPaid(id)
  \/ \E id \in 1..lastPaymentId : MarkAsUnpaid(id)
  \/ \E id \in 1..lastPaymentId : OpenPaymentDetail(id)
  \/ SavePaymentDetail

Spec == Init /\ [][Next]_vars

(***************************************************************************)
(* The app used one operation at a time, on a device whose storage and log *)
(* table can fail: the account deletions, the status toggles, and the      *)
(* failures of the environment.                                            *)
(***************************************************************************)
\* UPDATE accounts SET is_active = 0 WHERE id = ?
deactivateAccount(rows, id) ==
  {IF r.id = id THEN [r EXCEPT !.is_active = 0] ELSE r : r \in rows}

\* DELETE FROM accounts WHERE id = ?
removeAccount(rows, id) == {r \in rows : r.id # id}

\* a toggle that writes is_paid and leaves paid_date
toggleStatusOnly(rows, id, currentDateTime) ==
  {IF p.id = id THEN [p EXCEPT !.is_paid = IF p.is_paid = 1 THEN 0 ELSE 1] ELSE p : p \in rows}

\* UPDATE payments SET is_paid = newStatus, paid_date = paidDate WHERE id = ?
\* with newStatus = payment.is_paid ? 0 : 1
togglePaymentStatus(rows, id, currentDateTime) ==
  {IF p.id = id
   THEN [p EXCEPT !.is_paid = IF p.is_paid = 1 THEN 0 ELSE 1,
                  !.paid_date = IF p.is_paid = 1 THEN Null ELSE Some(currentDateTime)]
   ELSE p : p \in rows}

\* deleteAccount(id) from the account list: "await getAccountById(id)"
DeleteAccount(t, id) ==
  /\ FreeSlot(t)
  /\ \E r \in accounts : r.id = id /\ r.is_active = 1
  /\ Commit(t, oneStarted("deleteAccount", id, getAccountById(accounts, id), "deactivate"),
            payments)
  /\ UNCHANGED <<accounts, lastAccountId, lastPaymentId, logs>>
  /\ Started

\* hardDeleteAccount(id): "await getAccountById(id)"
HardDeleteAccount(t, id) ==
  /\ FreeSlot(t)
  /\ \E r \in accounts : r.id = id
  /\ Commit(t, oneStarted("hardDeleteAccount", id, getAccountById(accounts, id), "cascade"),
            payments)
  /\ UNCHANGED <<accounts, lastAccountId, lastPaymentId, logs>>
  /\ Started

\* deleteAccount: the soft delete of the account row
DeactivateStep(t) ==
  /\ Settled
  /\ tasks[t].pc = "deactivate"
  /\ accounts' = deactivateAccount(accounts, tasks[t].account[1].id)
  /\ Commit(t, [tasks[t] EXCEPT !.pc = "cascade"], payments)
  /\ UNCHANGED <<lastAccountId, lastPaymentId, logs>>
  /\ Stepped

\* the deletion after its cascade: deleteAccount logs and returns true,
\* hardDeleteAccount goes on to delete the account row
cascaded(task) ==
  IF task.op = "deleteAccount"
  THEN afterLog([task EXCEPT !.pc = "done"])
  ELSE afterLog([task EXCEPT !.pc = "remove"])

\* deleteAccount, hardDeleteAccount: "await deletePaymentsByAccountId(id)"
CascadeStep(t) ==
  /\ Settled
  /\ tasks[t].pc = "cascade"
  /\ IF writes = "failing"
     THEN /\ Commit(t, thrown(tasks[t], "DELETE failed"), payments)
          /\ UNCHANGED logs
     ELSE /\ Commit(t, cascaded([tasks[t] EXCEPT !.entry = payments]),
                    deletePaymentsByAccountId(payments, tasks[t].account[1].id))
          /\ Logged(IF tasks[t].op = "deleteAccount" THEN 2 ELSE 1)
  /\ UNCHANGED <<accounts, lastAccountId, lastPaymentId>>
  /\ Stepped

\* hardDeleteAccount: the deletion of the account row, the log, return true
RemoveStep(t) ==
  /\ Settled
  /\ tasks[t].pc = "remove"
  /\ accounts' = removeAccount(accounts, tasks[t].account[1].id)
  /\ Commit(t, afterLog([tasks[t] EXCEPT !.pc = "done"]), payments)
  /\ Logged(1)
  /\ UNCHANGED <<lastAccountId, lastPaymentId>>
  /\ Stepped

\* togglePaymentStatus(id)
TogglePaymentStatus(id) ==
  /\ id \in {p.id : p \in payments}
  /\ ScreenCommit(togglePaymentStatus(payments, id, now))
  /\ Logged(1)
  /\ UNCHANGED detail
  /\ UserActed

\* getPaymentById(paymentId) of loadPayment: a missing row leaves the
\* screen's payment as it was
reloaded(rows, loaded) ==
  IF \E p \in rows : p.id = loaded[1].id
  THEN Some(CHOOSE p \in rows : p.id = loaded[1].id)
  ELSE loaded

\* what PaymentDetail handleTogglePaid writes for the switch value
toggledPayment(payment, edit) ==
  [payment EXCEPT !.amount = edit.amount,
                  !.is_paid = edit.is_paid,
                  !.paid_date = IF edit.is_paid = 1 THEN Some(now) ELSE Null,
                  !.note = edit.note]

\* PaymentDetail handleTogglePaid(value): updatePayment(paymentId, {...payment,
\* amount, is_paid, paid_date, note}), then loadPayment
HandleTogglePaid ==
  /\ ~IsNull(detail)
  /\ \E edit \in PaymentEdits(detail[1]) :
       \E store \in {updatePayment(payments, detail[1].id,
                                   toggledPayment(detail[1], edit))} :
         /\ ScreenCommit(store)
         /\ detail' = reloaded(store, detail)
  /\ Logged(1)
  /\ UserActed

\* the environment: what an action of the environment leaves alone
EnvironmentActed ==
  UNCHANGED <<rule, chain, gen, today, accounts, payments, lastAccountId, lastPaymentId,
              tasks, detail, lastRun, ops, logs, lastFailed, appVars>>

\* the storage starts to refuse the writes to the payments table
WritesBreak ==
  /\ writes = "ok"
  /\ faults < MaxFaults
  /\ writes' = "failing"
  /\ faults' = faults + 1
  /\ UNCHANGED sink
  /\ EnvironmentActed

WritesRecover ==
  /\ writes = "failing"
  /\ writes' = "ok"
  /\ UNCHANGED <<sink, faults>>
  /\ EnvironmentActed

\* the INSERT INTO logs starts to fail
SinkBreaks ==
  /\ sink = "up"
  /\ faults < MaxSinkFaults
  /\ sink' = "down"
  /\ faults' = faults + 1
  /\ UNCHANGED writes
  /\ EnvironmentActed

SinkRecovers ==
  /\ sink = "down"
  /\ sink' = "up"
  /\ UNCHANGED <<writes, faults>>
  /\ EnvironmentActed

\* no operation is in flight
Serial == \A u \in TaskIds : tasks[u].pc = "idle"

\* the operations of the app, one at a time
Operations ==
  \/ Serial /\ \E data \in Forms : HandleSaveCreate(1, data)
  \/ Serial /\ \E id \in AccountIds, data \in Forms : HandleSaveEdit(1, id, data)
  \/ Serial /\ GeneratePaymentsForAllAccounts(1)
  \/ Serial /\ RegeneratePaymentsForAllAccounts(1)
  \/ Serial /\ CheckAndGenerateMissingPayments(1)
  \/ Serial /\ \E id \in AccountIds : RegeneratePaymentsForAccount(1, id)
  \/ Serial /\ \E id \in AccountIds : UpdatePaymentsForAccount(1, id)
  \/ Serial /\ \E id \in AccountIds : DeleteAccount(1, id)
  \/ Serial /\ \E id \in AccountIds : HardDeleteAccount(1, id)
  \/ \E t \in TaskIds : LoadPaymentsStep(t)
  \/ \E t \in TaskIds : UpdateAmountStep(t)
  \/ \E t \in TaskIds : PaymentExistsStep(t)
  \/ \E t \in TaskIds : CreatePaymentStep(t)
  \/ \E t \in TaskIds : DeletePaymentsStep(t)
  \/ \E t \in TaskIds : DeactivateStep(t)
  \/ \E t \in TaskIds : CascadeStep(t)
  \/ \E t \in TaskIds : RemoveStep(t)
  \/ \E t \in TaskIds : Continue(t)
  \/ \E t \in TaskIds : Release(t)
  \/ Serial /\ \E id \in 1..lastPaymentId : MarkAsPaid(id)
  \/ Serial /\ \E id \in 1..lastPaymentId : MarkAsUnpaid(id)
  \/ Serial /\ \E id \in 1..lastPaymentId : TogglePaymentStatus(id)
  \/ Serial /\ \E id \in 1..lastPaymentId : OpenPaymentDetail(id)
  \/ Serial /\ SavePaymentDetail
  \/ Serial /\ HandleTogglePaid

\* the app on a storage that can refuse the writes to the payments table
NextSerial ==
  \/ Operations
  \/ WritesBreak
  \/ WritesRecover

SpecSerial == Init /\ [][NextSerial]_vars

\* the app with a logs table whose INSERT can fail
NextSink ==
  \/ Operations
  \/ SinkBreaks
  \/ SinkRecovers

SpecSink == Init /\ [][NextSink]_vars

\* C16: generatePaymentDates returns for every kind of rule (an unknown kind
\* included), however long before today the anchor is: every test of the
\* loop either returns or runs the body, which counts the iteration up, and
\* the count never passes MaxIterations + 1, so the loop ends within
\* MaxIterations + 1 tests.  It never holds more than MaxIterations dates,
\* each the occurrence of its position; it logs only when it stops at the
\* ceiling, and then returns the MaxIterations dates collected.
C16_CeilingStopsTheLoop ==
  /\ [](gen.call = "generatePaymentDates" =>
          /\ Len(gen.dates) = gen.iteration - 1
          /\ Len(gen.dates) <= MaxIterations
          /\ gen.logged => (gen.pc = "returned" /\ Len(gen.dates) = MaxIterations)
          /\ gen.pc = "while" => Len(gen.dates) < MaxIterations)
  /\ [][(gen.call = "generatePaymentDates" /\ gen.pc = "while") =>
          \/ /\ gen'.pc = "returned"
             /\ gen'.dates = gen.dates
             /\ ~gen'.logged
          \/ /\ gen'.iteration = gen.iteration + 1
             /\ gen'.iteration <= MaxIterations + 1
             /\ gen'.dates = Append(gen.dates, getDateString(genOccurrence(gen.iteration)))
             /\ gen'.pc = "returned" <=> gen'.iteration = MaxIterations + 1
             /\ gen'.logged <=> gen'.iteration = MaxIterations + 1]_vars

\* a rule of an unknown kind reached the ceiling: MaxIterations dates
\* returned and logged, the next occurrence still inside the window
C16_Witness ==
  /\ gen.call = "generatePaymentDates"
  /\ gen.pc = "returned"
  /\ rule.repeatType = "daily"
  /\ gen.logged
  /\ Len(gen.dates) = MaxIterations
  /\ inWindow(gen.nextDate, gen.maxDate)
  /\ IsNull(gen.endDate)

(***************************************************************************)
(* The screens that start a reconciliation: Save on the account screen and *)
(* the two regenerate actions of the settings screen.  Neither handler     *)
(* looks at an in-flight flag (AccountDetail sets `loading` and never      *)
(* reads it), so a press is served whenever the event loop is free.        *)
(***************************************************************************)
NextScreens ==
  \/ \E t \in TaskIds, data \in Forms : HandleSaveCreate(t, data)
  \/ \E t \in TaskIds, id \in AccountIds, data \in Forms : HandleSaveEdit(t, id, data)
  \/ \E t \in TaskIds : GeneratePaymentsForAllAccounts(t)
  \/ \E t \in TaskIds : RegeneratePaymentsForAllAccounts(t)
  \/ \E t \in TaskIds : PaymentExistsStep(t)
  \/ \E t \in TaskIds : CreatePaymentStep(t)
  \/ \E t \in TaskIds : DeletePaymentsStep(t)
  \/ \E t \in TaskIds : Continue(t)
  \/ \E t \in TaskIds : Release(t)

SpecScreens == Init /\ [][NextScreens]_vars

\* the slot is inside generatePaymentsForAccount, or inside the delete that
\* precedes it in regeneratePaymentsForAllAccounts
Reconciling(t) == tasks[t].pc \in {"exists", "create", "delete"}

\* C20 (as claimed): in no reachable state of the screens are two
\* reconciliations of the same account in progress at the same time, and no
\* run fails on the UNIQUE constraint because another run created the same
\* (account_id, due_date) between its existence check and its create.
C20_OneReconciliationPerAccount ==
  /\ \A t \in TaskIds, u \in TaskIds :
       (t # u /\ Reconciling(t) /\ Reconciling(u)) =>
         tasks[t].account[1].id # tasks[u].account[1].id
  /\ \A t \in TaskIds : tasks[t].error # "UNIQUE constraint failed"

(***************************************************************************)
(* Properties of the store (Spec).                                         *)
(***************************************************************************)
accountRows(t) == getPaymentsByAccountId(payments, tasks[t].account[1].id)

\* C1: in every reachable state, under any interleaving of the generator's
\* operations and the user payment operations, the payments table holds at
\* most one row for each pair (account_id, due_date).
C1_UniqueAccountDueDate ==
  \A p \in payments, q \in payments :
    (p.account_id = q.account_id /\ p.due_date = q.due_date) => p = q

\* two operations raced on one account and date: the second INSERT was rejected
C1_Witness ==
  \E t \in TaskIds :
    /\ tasks[t].pc = "failed"
    /\ tasks[t].error = "UNIQUE constraint failed"
    /\ tasks[t].skipExisting
    /\ paymentExists(payments, tasks[t].account[1].id, tasks[t].dates[tasks[t].i])

\* C2: every step of a SkipExisting run (a paymentExists check or a
\* createPayment of generatePaymentsForAccount(account, true)) leaves each row
\* of the payments table present with the same amount, is_paid, paid_date and
\* note; so every instance that existed before the run is unchanged after it.
C2_SkipExistingKeepsInstances ==
  [][\A t \in TaskIds :
       (/\ tasks[t].pc \in {"exists", "create"}
        /\ tasks[t].skipExisting
        /\ (tasks'[t].pc # tasks[t].pc \/ tasks'[t].i # tasks[t].i))
       => \A p \in payments : p \in payments']_vars

\* a SkipExisting run returned after skipping an instance that is paid with a
\* custom amount, for an account whose default amount is another one
C2_Witness ==
  \E t \in TaskIds :
    /\ tasks[t].pc = "returned"
    /\ tasks[t].skipExisting
    /\ tasks[t].skipped > 0
    /\ \E p \in tasks[t].entry \cap payments :
         /\ p.account_id = tasks[t].account[1].id
         /\ p.is_paid = 1
         /\ p.amount = CustomAmount
         /\ tasks[t].account[1].amount = Some(20)

\* C3: a SkipExisting run that starts after a completed SkipExisting run of
\* the same account and rule, with no write to the payments table in between
\* or during it, returns created = 0 and skipped = total and leaves the table
\* as it was.
C3_SecondRunCreatesNothing ==
  \A t \in TaskIds :
    (tasks[t].prior /\ tasks[t].alone /\ tasks[t].pc \in {"returned", "failed"}) =>
      /\ tasks[t].pc = "returned"
      /\ tasks[t].created = 0
      /\ tasks[t].skipped = Len(tasks[t].dates)
      /\ payments = tasks[t].entry

\* a second run returned, with dates to skip
C3_Witness ==
  \E t \in TaskIds :
    /\ tasks[t].prior
    /\ tasks[t].alone
    /\ tasks[t].pc = "returned"
    /\ tasks[t].skipped >= 2

\* C9: when the run of a Regenerate (regeneratePaymentsForAccount, or an
\* account's turn in regeneratePaymentsForAllAccounts) that no other write to
\* the payments table interleaves with has ended, it has returned, and the
\* account's rows are exactly one per generated date, each unpaid with
\* paid_date and note null, none of them a row that existed before the delete.
C9_RegenerateLeavesFreshInstances ==
  \A t \in TaskIds :
    (/\ tasks[t].op \in {"regeneratePaymentsForAccount", "regeneratePaymentsForAllAccounts"}
     /\ tasks[t].alone
     /\ tasks[t].pc \in {"returned", "failed"}) =>
      /\ tasks[t].pc = "returned"
      /\ Cardinality(accountRows(t)) = Len(tasks[t].dates)
      /\ \A i \in 1..Len(tasks[t].dates) :
           \E p \in accountRows(t) :
             /\ p.due_date = tasks[t].dates[i]
             /\ p.is_paid = 0
             /\ p.paid_date = Null
             /\ p.note = Null
      /\ \A p \in accountRows(t) : \A q \in tasks[t].entry : p.id # q.id

\* a Regenerate returned for an account that had a paid instance with a note
C9_Witness ==
  \E t \in TaskIds :
    /\ tasks[t].op \in {"regeneratePaymentsForAccount", "regeneratePaymentsForAllAccounts"}
    /\ tasks[t].alone
    /\ tasks[t].pc = "returned"
    /\ Len(tasks[t].dates) >= 2
    /\ \E q \in tasks[t].entry :
         /\ q.account_id = tasks[t].account[1].id
         /\ q.is_paid = 1
         /\ q.note # Null

\* the step is taken by the operation in slot t
ActsIn(t) == tasks'[t].pc # tasks[t].pc \/ tasks'[t].i # tasks[t].i

\* C11: a createPayment of a generation run (SkipExisting or not) that
\* succeeds adds exactly one row: account_id and due_date are the run's
\* account and the date it is at, amount is the account's amount (0 when the
\* account has none), is_paid = 0, paid_date = null, note = null.
C11_CreatedInstanceFields ==
  [][\A t \in TaskIds :
       (tasks[t].pc = "create" /\ ActsIn(t) /\ tasks'[t].pc # "failed") =>
         /\ Cardinality(payments' \ payments) = 1
         /\ payments \subseteq payments'
         /\ \A p \in payments' \ payments :
              /\ p.account_id = tasks[t].account[1].id
              /\ p.due_date = tasks[t].dates[tasks[t].i]
              /\ p.amount = (IF tasks[t].account[1].amount = Null THEN 0
                             ELSE tasks[t].account[1].amount[1])
              /\ p.is_paid = 0
              /\ p.paid_date = Null
              /\ p.note = Null]_vars

\* a run for an account without amount has created an instance with amount 0
C11_Witness ==
  \E t \in TaskIds :
    /\ tasks[t].pc = "returned"
    /\ tasks[t].created > 0
    /\ tasks[t].account[1].amount = Null
    /\ \E p \in accountRows(t) : p.amount = 0 /\ p.is_paid = 0

RECURSIVE sumSeq(_)
sumSeq(numbers) == IF numbers = <<>> THEN 0 ELSE Head(numbers) + sumSeq(Tail(numbers))

\* the rows of the table that were not there at the run's entry
rowsSinceEntry(t) == {p \in payments : \A q \in tasks[t].entry : q.id # p.id}
\* the generated dates that had an instance when the run's loop began
datesHeldAtEntry(t) ==
  {i \in 1..Len(tasks[t].dates) :
     \E q \in tasks[t].entry :
       /\ q.account_id = tasks[t].account[1].id
       /\ q.due_date = tasks[t].dates[i]
       /\ tasks[t].skipExisting}

\* C12: when generatePaymentsForAccount has returned, created + skipped =
\* total = the number of generated dates; if no other write to the payments
\* table interleaved with the run, created is the number of rows the run
\* added and skipped the number of generated dates that already had an
\* instance.  generatePaymentsForAllAccounts reads the active accounts and
\* ends with the sums of the per-account results over exactly those accounts.
C12_ReturnedCounts ==
  /\ [](\A t \in TaskIds :
          /\ tasks[t].pc = "returned" =>
               /\ tasks[t].created + tasks[t].skipped = Len(tasks[t].dates)
               /\ tasks[t].alone =>
                    /\ tasks[t].created = Cardinality(rowsSinceEntry(t))
                    /\ tasks[t].skipped = Cardinality(datesHeldAtEntry(t))
          /\ (tasks[t].op = "generatePaymentsForAllAccounts" /\ tasks[t].pc = "done") =>
               /\ [i \in 1..Len(tasks[t].results) |-> tasks[t].results[i].id]
                    = [i \in 1..Len(tasks[t].read) |-> tasks[t].read[i].id]
               /\ tasks[t].totalCreated
                    = sumSeq([i \in 1..Len(tasks[t].results) |-> tasks[t].results[i].created])
               /\ tasks[t].totalSkipped
                    = sumSeq([i \in 1..Len(tasks[t].results) |-> tasks[t].results[i].skipped])
               /\ tasks[t].totalExpected
                    = sumSeq([i \in 1..Len(tasks[t].results) |-> tasks[t].results[i].total]))
  /\ [][\A t \in TaskIds :
          /\ (tasks[t].pc = "idle" /\ tasks'[t].op = "generatePaymentsForAllAccounts") =>
               {tasks'[t].read[i].id : i \in 1..Len(tasks'[t].read)}
                 = {a.id : a \in {r \in accounts : r.is_active = 1}}
          /\ (tasks[t].pc = "returned" /\ tasks'[t].op = "generatePaymentsForAllAccounts"
              /\ ActsIn(t)) =>
               tasks'[t].results[Len(tasks'[t].results)]
                 = [id |-> tasks[t].account[1].id, created |-> tasks[t].created,
                    skipped |-> tasks[t].skipped, total |-> Len(tasks[t].dates)]]_vars

\* generatePaymentsForAllAccounts ended over two accounts, with instances
\* created and instances skipped
C12_Witness ==
  \E t \in TaskIds :
    /\ tasks[t].op = "generatePaymentsForAllAccounts"
    /\ tasks[t].pc = "done"
    /\ Len(tasks[t].results) = 2
    /\ tasks[t].totalCreated > 0
    /\ tasks[t].totalSkipped > 0
    /\ tasks[t].results[1].skipped + tasks[t].results[1].created > 0
    /\ tasks[t].results[2].skipped + tasks[t].results[2].created > 0

\* the instances of the run's account that have one of its generated dates
instancesOn(t, i) ==
  {p \in payments : p.account_id = tasks[t].account[1].id
                    /\ p.due_date = tasks[t].dates[i]}

\* the rows of the run's account that were not there at the run's entry
ownRowsSinceEntry(t) ==
  {p \in rowsSinceEntry(t) : p.account_id = tasks[t].account[1].id}

\* C21: a step of an operation changes only rows of the account it is
\* working on, whatever else is in flight.  A run whose account's rows no
\* other operation or screen wrote during it -- writes to other accounts
\* may have interleaved at any step -- does not fail, and returns what it
\* returns when run by itself: created + skipped = total, created the
\* number of rows it added, skipped the number of generated dates the
\* account held at entry, the account's earlier rows kept by a SkipExisting
\* run, and exactly one instance of the account for each generated date.
C21_AccountsInterleaveSafely ==
  /\ [](\A t \in TaskIds :
          tasks[t].own =>
            /\ tasks[t].pc # "failed"
            /\ tasks[t].pc = "returned" =>
                 /\ tasks[t].created + tasks[t].skipped = Len(tasks[t].dates)
                 /\ tasks[t].created = Cardinality(ownRowsSinceEntry(t))
                 /\ tasks[t].skipped = Cardinality(datesHeldAtEntry(t))
                 /\ tasks[t].skipExisting =>
                      \A q \in tasks[t].entry :
                        q.account_id = tasks[t].account[1].id => q \in payments
                 /\ \A i \in 1..Len(tasks[t].dates) : Cardinality(instancesOn(t, i)) = 1)
  /\ [][\A t \in TaskIds :
          (ActsIn(t) /\ payments' # payments) =>
            /\ ~IsNull(tasks[t].account)
            /\ \A p \in (payments \ payments') \cup (payments' \ payments) :
                 p.account_id = tasks[t].account[1].id]_vars

\* a run returned with instances created while writes to another account's
\* rows interleaved with it and none to its own
C21_Witness ==
  \E t \in TaskIds :
    /\ tasks[t].pc = "returned"
    /\ tasks[t].own
    /\ ~tasks[t].alone
    /\ tasks[t].created > 0
    /\ \E p \in rowsSinceEntry(t) : p.account_id # tasks[t].account[1].id

(***************************************************************************)
(* Properties of the store on a storage that can fail (SpecSerial).        *)
(***************************************************************************)
\* C13: when createPayment fails in a SkipExisting run, the operation fails
\* with that error and the instances the run had created stay, with every
\* instance that was there before.  A SkipExisting run that follows with
\* nothing else changed does not fail on an instance of the failed run; when
\* it returns it has skipped the dates the failed run had made, created
\* exactly the dates that had no instance, and the account has exactly one
\* instance for each generated date, every earlier instance still there.
C13_FailedSkipRunRepeated ==
  \A t \in TaskIds :
    /\ (tasks[t].pc = "failed" /\ tasks[t].error = "INSERT failed"
        /\ tasks[t].skipExisting) =>
         /\ tasks[t].entry \subseteq payments
         /\ Cardinality(rowsSinceEntry(t)) = tasks[t].created
         /\ \A p \in rowsSinceEntry(t) :
              /\ p.account_id = tasks[t].account[1].id
              /\ \E i \in 1..(tasks[t].i - 1) : p.due_date = tasks[t].dates[i]
    /\ (tasks[t].skipExisting /\ ~IsNull(tasks[t].retry)) =>
         /\ tasks[t].error # "UNIQUE constraint failed"
         /\ tasks[t].pc = "returned" =>
              /\ tasks[t].entry \subseteq payments
              /\ \A d \in tasks[t].retry[1].made :
                   \E i \in datesHeldAtEntry(t) : tasks[t].dates[i] = d
              /\ tasks[t].skipped = Cardinality(datesHeldAtEntry(t))
              /\ tasks[t].created = Len(tasks[t].dates) - Cardinality(datesHeldAtEntry(t))
              /\ Cardinality(rowsSinceEntry(t)) = tasks[t].created
              /\ \A i \in 1..Len(tasks[t].dates) : Cardinality(instancesOn(t, i)) = 1

\* a SkipExisting run returned after a run that had failed with one instance
\* made: it skipped that instance and created the remaining one
C13_Witness ==
  \E t \in TaskIds :
    /\ tasks[t].pc = "returned"
    /\ tasks[t].skipExisting
    /\ ~IsNull(tasks[t].retry)
    /\ tasks[t].retry[1].made # {}
    /\ tasks[t].skipped > 0
    /\ tasks[t].created > 0

\* the operation regenerates: it deletes the account's instances, then runs
Regenerates(t) ==
  /\ tasks[t].op \in {"regeneratePaymentsForAccount", "regeneratePaymentsForAllAccounts"}
  /\ ~tasks[t].skipExisting

\* C14: a Regenerate that fails in a createPayment after its delete leaves
\* the account with fresh unpaid instances for the first `created` generated
\* dates and nothing else (none at all if the first create failed).  A
\* regeneratePaymentsForAccount that follows does not fail on what was left,
\* and when it returns the account has exactly one instance, fresh and
\* unpaid, for each generated date.
C14_FailedRegenerateRepeated ==
  \A t \in TaskIds :
    /\ (Regenerates(t) /\ tasks[t].pc = "failed" /\ tasks[t].error = "INSERT failed") =>
         /\ tasks[t].created < Len(tasks[t].dates)
         /\ Cardinality(accountRows(t)) = tasks[t].created
         /\ \A p \in accountRows(t) :
              /\ \E i \in 1..tasks[t].created : p.due_date = tasks[t].dates[i]
              /\ p.is_paid = 0 /\ p.paid_date = Null /\ p.note = Null
              /\ \A q \in tasks[t].entry : q.id # p.id
    /\ (tasks[t].op = "regeneratePaymentsForAccount" /\ ~IsNull(tasks[t].retry)) =>
         /\ tasks[t].error # "UNIQUE constraint failed"
         /\ tasks[t].pc = "returned" =>
              /\ Cardinality(accountRows(t)) = Len(tasks[t].dates)
              /\ \A i \in 1..Len(tasks[t].dates) :
                   /\ Cardinality(instancesOn(t, i)) = 1
                   /\ \A p \in instancesOn(t, i) :
                        /\ p.is_paid = 0 /\ p.paid_date = Null /\ p.note = Null
                        /\ \A q \in tasks[t].entry : q.id # p.id

\* regeneratePaymentsForAccount returned after a Regenerate of the account
\* had failed leaving fewer instances than generated dates
C14_Witness ==
  \E t \in TaskIds :
    /\ tasks[t].op = "regeneratePaymentsForAccount"
    /\ tasks[t].pc = "returned"
    /\ ~IsNull(tasks[t].retry)
    /\ Cardinality(tasks[t].retry[1].made) < Len(tasks[t].dates)
    /\ tasks[t].created = Len(tasks[t].dates)

\* C17: when deleteAccount(id) or hardDeleteAccount(id) has completed, the
\* payments table holds no instance of account id, paid or not, and holds
\* the instances of the other accounts exactly as they were before the
\* deletion; the account row is inactive, or gone after a hard delete.
C17_DeleteCascades ==
  \A t \in TaskIds :
    (tasks[t].op \in {"deleteAccount", "hardDeleteAccount"} /\ tasks[t].pc = "done") =>
      /\ accountRows(t) = {}
      /\ payments = {p \in tasks[t].entry : p.account_id # tasks[t].account[1].id}
      /\ \A r \in accounts :
           r.id = tasks[t].account[1].id =>
             (tasks[t].op = "deleteAccount" /\ r.is_active = 0)

\* deleteAccount completed for an account that had instances, while another
\* account has instances
C17_Witness ==
  \E t \in TaskIds :
    /\ tasks[t].op = "deleteAccount"
    /\ tasks[t].pc = "done"
    /\ \E p \in tasks[t].entry : p.account_id = tasks[t].account[1].id
    /\ \E p \in tasks[t].entry : p.account_id # tasks[t].account[1].id
    /\ payments # {}

\* C18: in every reachable state every instance with a paid_date is paid
\* and every unpaid instance has a null paid_date, whatever sequence of
\* creations, user payment operations, account updates, generation and
\* regeneration runs led there.
C18_PaidDateOnlyWhenPaid ==
  \A p \in payments :
    /\ p.is_paid \in {0, 1}
    /\ ~IsNull(p.paid_date) => p.is_paid = 1
    /\ p.is_paid = 0 => IsNull(p.paid_date)

\* an unpaid instance that a user operation has written, next to a paid one
C18_Witness ==
  /\ \E p \in payments : p.is_paid = 0 /\ IsNull(p.paid_date) /\ ~IsNull(p.note)
  /\ \E p \in payments : p.is_paid = 1 /\ ~IsNull(p.paid_date)

\* the engine operations that delete nothing
NonDestructive ==
  {"handleSave", "generatePaymentsForAllAccounts", "updatePaymentsForAccount",
   "checkAndGenerateMissingPayments"}

\* C19 (as claimed): no step of a non-destructive engine operation
\* (generatePaymentsForAccount, generatePaymentsForAllAccounts,
\* updatePaymentsForAccount, checkAndGenerateMissingPayments) changes the
\* amount, the note or the paid state of an instance that exists before the
\* step.
C19_EngineKeepsUserFields ==
  [][\A t \in TaskIds :
       (tasks[t].op \in NonDestructive /\ ActsIn(t)) =>
         \A p \in payments :
           \E q \in payments' :
             /\ q.id = p.id
             /\ q.amount = p.amount
             /\ q.note = p.note
             /\ q.is_paid = p.is_paid
             /\ q.paid_date = p.paid_date]_vars

(***************************************************************************)
(* Properties of the store with a logs table that can fail (SpecSink).     *)
(***************************************************************************)
\* C15: a failing INSERT INTO logs aborts nothing.  No operation ever ends
\* with the sink's error; while the sink is down a createPayment still adds
\* its row and the run goes on, a deletePaymentsByAccountId still removes
\* the account's rows and its caller goes on, the operations that log at
\* their end still complete, and a run returns the counts of what it did to
\* the table; only the logs table misses the entry.
C15_LogFailureAbortsNothing ==
  /\ [](\A t \in TaskIds :
          /\ tasks[t].error # "log insert failed"
          /\ tasks[t].pc = "returned" =>
               /\ tasks[t].created + tasks[t].skipped = Len(tasks[t].dates)
               /\ tasks[t].created = Cardinality(rowsSinceEntry(t)))
  /\ [][sink = "down" =>
          /\ logs' = logs
          /\ \A t \in TaskIds :
               /\ (tasks[t].pc = "create" /\ ActsIn(t)) =>
                    /\ tasks'[t].pc # "failed"
                    /\ tasks'[t].created = tasks[t].created + 1
                    /\ payments' = payments \cup
                                     {newPayment(lastPaymentId + 1, tasks[t].account[1],
                                                 tasks[t].dates[tasks[t].i])}
               /\ (tasks[t].pc \in {"delete", "cascade"} /\ ActsIn(t)) =>
                    /\ tasks'[t].pc # "failed"
                    /\ payments' = deletePaymentsByAccountId(payments,
                                                              tasks[t].account[1].id)
               /\ (tasks[t].pc \in {"returned", "remove"} /\ ActsIn(t)) =>
                    /\ tasks'[t].pc # "failed"
                    /\ payments' = payments
               /\ (tasks[t].pc = "returned" /\ tasks[t].queue = <<>> /\ ActsIn(t)) =>
                    tasks'[t].pc = "done"]_vars

\* regeneratePaymentsForAllAccounts completed with instances created while
\* every insert into the logs table had failed
C15_Witness ==
  \E t \in TaskIds :
    /\ tasks[t].op = "regeneratePaymentsForAllAccounts"
    /\ tasks[t].pc = "done"
    /\ tasks[t].totalCreated > 0
    /\ sink = "down"
    /\ logs = 0
    /\ payments # {}

(***************************************************************************)
(* The account screen: the date fields of the form and Save.               *)
(***************************************************************************)
\* the days the pickers offer, around the day the app runs
FormOffsets == {-30, 0, 30}
FormDays == {today + k : k \in FormOffsets}

\* an action of the form: nothing but the form changes
FormActed ==
  /\ Settled
  /\ UNCHANGED <<rule, chain, gen, today, accounts, payments, lastAccountId, lastPaymentId,
                 tasks, detail, lastRun, ops, logs, sink, writes, faults, lastFailed,
                 isReady>>

\* the screen opens for a new account: the useState initial values
OpenAccountDetail ==
  /\ form' = blankForm(today)
  /\ FormActed

\* loadAccount: the screen opens on an account and fills the form from its
\* row; endDate keeps new Date() when the row has no end_date
loadedForm(account, currentDate) ==
  [accountId  |-> Some(account.id),
   startDate  |-> parseISO(account.start_date),
   hasEndDate |-> account.has_end_date = 1,
   endDate    |-> IF IsNull(account.end_date) THEN currentDate
                  ELSE parseISO(account.end_date[1])]
LoadAccount(id) ==
  /\ \E a \in getAccountById(accounts, id) : form' = loadedForm(a, today)
  /\ FormActed

\* the start picker has no minimumDate or maximumDate, and endDate is left
\* as it is
OnStartDateChange(selectedDate) ==
  /\ form' = [form EXCEPT !.startDate = selectedDate]
  /\ FormActed

\* the "Has End Date" switch: onValueChange={setHasEndDate}
SetHasEndDate(value) ==
  /\ form' = [form EXCEPT !.hasEndDate = value]
  /\ FormActed

\* the end picker is rendered when hasEndDate, with minimumDate={startDate}
OnEndDateChange(selectedDate) ==
  /\ form.hasEndDate
  /\ selectedDate >= form.startDate
  /\ form' = [form EXCEPT !.endDate = selectedDate]
  /\ FormActed

\* accountData of handleSave, from the date fields of the form
formData(f) ==
  accountData(Some(10), "monthly", getDateString(f.startDate),
              IF f.hasEndDate THEN Some(getDateString(f.endDate)) ELSE Null)

\* Save: handleSave validates name, category and amount, then stores the
\* account and runs the generation
HandleSave(t) ==
  /\ \A u \in TaskIds : tasks[u].pc = "idle"
  /\ IF IsNull(form.accountId)
     THEN HandleSaveCreate(t, formData(form))
     ELSE HandleSaveEdit(t, form.accountId[1], formData(form))

NextForm ==
  \/ OpenAccountDetail
  \/ \E id \in AccountIds : LoadAccount(id)
  \/ \E d \in FormDays : OnStartDateChange(d)
  \/ \E b \in BOOLEAN : SetHasEndDate(b)
  \/ \E d \in FormDays : OnEndDateChange(d)
  \/ \E t \in TaskIds : HandleSave(t)
  \/ \E t \in TaskIds : PaymentExistsStep(t)
  \/ \E t \in TaskIds : CreatePaymentStep(t)
  \/ \E t \in TaskIds : Continue(t)
  \/ \E t \in TaskIds : Release(t)

SpecForm == Init /\ [][NextForm]_vars

\* C22 (as claimed): every account saved with has_end_date = 1 has an
\* end_date on or after its start_date, whatever the order in which the
\* start date was set, the end date switched on and the end date picked
C22_SavedEndNotBeforeStart ==
  \A a \in accounts : a.has_end_date = 1 => a.end_date[1] >= a.start_date

(***************************************************************************)
(* The evaluator called with parameters outside their ranges.              *)
(***************************************************************************)
\* the ranges of the kind-specific parameters and of the iteration count
validDetails(d) ==
  /\ IsNull(d.dayOfWeek) \/ d.dayOfWeek[1] \in 0..6
  /\ IsNull(d.dayOfMonth) \/ d.dayOfMonth[1] \in 1..31
  /\ IsNull(d.monthOfYear) \/ d.monthOfYear[1] \in 1..12
  /\ IsNull(d.dayOfYear) \/ d.dayOfYear[1] \in 1..31
validCount(count) == count >= 1

\* parameters just outside their ranges
OutOfRangeDetails ==
  {[NoDetails EXCEPT !.dayOfWeek = Some(w)] : w \in {0 - 1, 7}}
  \cup {[NoDetails EXCEPT !.dayOfMonth = Some(d)] : d \in {0, 32}}
  \cup {[NoDetails EXCEPT !.monthOfYear = Some(m), !.dayOfYear = Some(15)] : m \in {0, 13}}
  \cup {[NoDetails EXCEPT !.monthOfYear = Some(2), !.dayOfYear = Some(d)] : d \in {0, 32}}
Counts == (0 - 1)..2

\* the kind that reads the parameter set in details
kindReading(d) ==
  IF ~IsNull(d.dayOfWeek) THEN {"weekly"}
  ELSE IF ~IsNull(d.dayOfMonth) THEN {"monthly"}
  ELSE IF ~IsNull(d.monthOfYear) THEN {"yearly"}
  ELSE {"weekly", "monthly", "yearly", "custom"}

InvalidInit ==
  /\ rule \in {r \in {[startDate |-> getDateString(a), repeatType |-> k, details |-> d] :
                       a \in Anchors,
                       k \in {"weekly", "monthly", "yearly", "custom"},
                       d \in OutOfRangeDetails \cup {NoDetails}} :
                 r.repeatType \in kindReading(r.details)}
  /\ chain = <<>>
  /\ gen = [call |-> "none"]
  /\ StoreInit

\* whether getNextPaymentDate throws: the function has no throw statement
\* and checks no parameter; setDay, setDate, addWeeks, addMonths, addYears
\* and the Date constructor return a Date for every integer argument
getNextPaymentDateThrows(date, repeatType, count, recurringDetails) == FALSE

\* a call of getNextPaymentDate with a parameter or a count out of range
CallOutOfRange ==
  /\ gen.call = "none"
  /\ \E count \in Counts :
       /\ ~validDetails(rule.details) \/ ~validCount(count)
       /\ gen' = [call   |-> "getNextPaymentDate",
                  count  |-> count,
                  raised |-> getNextPaymentDateThrows(parseISO(rule.startDate),
                                                      rule.repeatType, count, rule.details),
                  date   |-> getDateString(
                               getNextPaymentDate(parseISO(rule.startDate),
                                                  rule.repeatType, count, rule.details))]
  /\ UNCHANGED <<rule, chain>>
  /\ UNCHANGED storeVars

InvalidNext == CallOutOfRange

SpecInvalid == InvalidInit /\ [][InvalidNext]_vars

\* C23 (as claimed): a call of getNextPaymentDate with dayOfMonth or
\* dayOfYear outside 1..31, monthOfYear outside 1..12, dayOfWeek outside
\* 0..6 or a count <= 0 raises an error and returns no date
C23_InvalidParametersRaise ==
  (/\ gen.call = "getNextPaymentDate"
   /\ ~validDetails(rule.details) \/ ~validCount(gen.count))
    => gen.raised

(***************************************************************************)
(* Launches: the app is closed and started again, on the same or a later   *)
(* day, over the database it left behind.                                  *)
(***************************************************************************)
\* days between two launches, and the last day the app is started on
LaunchGaps == {0, 31}
MaxDaysAhead == 31

\* the app was closed with no operation in flight and is started again:
\* the components are mounted anew, the database file is the one left behind
Relaunch(days) ==
  /\ \A u \in TaskIds : tasks[u].pc = "idle"
  /\ today + days <= parseISO(20250131) + MaxDaysAhead
  /\ today' = today + days
  /\ isReady' = FALSE
  /\ form' = blankForm(today + days)
  /\ detail' = Null
  /\ UNCHANGED <<rule, chain, gen, accounts, payments, lastAccountId, lastPaymentId,
                 tasks, lastRun, ops, logs, sink, writes, faults, lastFailed>>

\* initializeApp: initDatabase (openDatabaseAsync, CREATE TABLE IF NOT EXISTS,
\* the indexes), initializeNotifications, setIsReady(true); no statement
\* reads or writes the accounts or the payments
InitializeApp ==
  /\ ~isReady
  /\ isReady' = TRUE
  /\ UNCHANGED <<rule, chain, gen, today, accounts, payments, lastAccountId,
                 lastPaymentId, tasks, detail, lastRun, ops, logs, sink, writes, faults,
                 lastFailed, form>>

\* the screens are rendered once isReady; the user starts an operation when
\* the one before has finished
Rendered == isReady /\ \A u \in TaskIds : tasks[u].pc = "idle"
NextStartup ==
  \/ \E days \in LaunchGaps : Relaunch(days)
  \/ InitializeApp
  \/ Rendered /\ \E t \in TaskIds, data \in Forms : HandleSaveCreate(t, data)
  \/ Rendered /\ \E t \in TaskIds : GeneratePaymentsForAllAccounts(t)
  \/ \E t \in TaskIds : PaymentExistsStep(t)
  \/ \E t \in TaskIds : CreatePaymentStep(t)
  \/ \E t \in TaskIds : Continue(t)
  \/ \E t \in TaskIds : Release(t)

SpecStartup == Init /\ [][NextStartup]_vars

\* the dates of the account's rule in the window at currentDate that have
\* no instance
missingDates(account, currentDate) ==
  {i \in 1..Len(accountPaymentDates(account, currentDate)) :
     ~paymentExists(payments, account.id, accountPaymentDates(account, currentDate)[i])}

\* C24 (as claimed): the start of the app is a reconciliation trigger: once
\* initialization has completed, a SkipExisting reconciliation has run for
\* every active account, so that with no operation in flight each active
\* account has an instance on every date of its rule in the window at today
C24_StartupReconciles ==
  (isReady /\ \A u \in TaskIds : tasks[u].pc = "idle")
    => \A a \in accounts : a.is_active = 1 => missingDates(a, today) = {}

(***************************************************************************)
(* Properties of the evaluator's kinds (SpecDates).                        *)
(***************************************************************************)
\* C25 (as claimed): a Custom rule is evaluated exactly like a Monthly rule:
\* for every anchor, every iteration >= 1 and the same parameters,
\* getNextPaymentDate(anchor, 'custom', i, params) is
\* getNextPaymentDate(anchor, 'monthly', i, params)
C25_CustomIsMonthly ==
  rule.repeatType = "monthly" =>
    \A i \in 1..Len(chain) :
      getNextPaymentDate(parseISO(rule.startDate), "custom", i, rule.details) = chain[i]

\* day min(d, length of the month) of the month numbered monthIndex
\* (months counted from year 0)
clampedDayOf(monthIndex, d) ==
  daysFromCivil(monthIndex \div 12, (monthIndex % 12) + 1,
                Min(d, monthLength(monthIndex \div 12, (monthIndex % 12) + 1)))
monthIndexOf(date) == getFullYear(date) * 12 + (getMonth1(date) - 1)
\* the first occurrence the rule text gives a Monthly rule with dayOfMonth d
firstMonthlyOn(anchor, d) ==
  IF clampedDayOf(monthIndexOf(anchor), d) > anchor
  THEN clampedDayOf(monthIndexOf(anchor), d)
  ELSE clampedDayOf(monthIndexOf(anchor) + 1, d)

\* C26 (as claimed): for a Monthly rule with dayOfMonth = d the first
\* occurrence is day min(d, month length) of the anchor's month if that is
\* strictly after the anchor and of the following month otherwise, and
\* occurrence k is k-1 calendar months after the first on day
\* min(d, length of that month): one occurrence per month, none spilling
\* into the next month
C26_MonthlyOnePerMonth ==
  (rule.repeatType = "monthly" /\ ~IsNull(rule.details.dayOfMonth)) =>
    \A k \in 1..Len(chain) :
      chain[k] = clampedDayOf(monthIndexOf(firstMonthlyOn(ruleStart,
                                                          rule.details.dayOfMonth[1]))
                              + (k - 1),
                              rule.details.dayOfMonth[1])

\* C27: for a Weekly rule with dayOfWeek = w the first occurrence is the
\* earliest date strictly after the anchor whose weekday is w, 1 to 7 days
\* after the anchor and exactly 7 when the anchor's weekday is w, and
\* occurrence k is 7*(k-1) days after the first
C27_WeeklyOnWeekday ==
  (rule.repeatType = "weekly" /\ ~IsNull(rule.details.dayOfWeek) /\ Len(chain) >= 1) =>
    /\ chain[1] - ruleStart \in 1..7
    /\ (chain[1] + 4) % 7 = rule.details.dayOfWeek[1]
    /\ (ruleStart + 4) % 7 = rule.details.dayOfWeek[1] => chain[1] = ruleStart + 7
    /\ \A k \in 1..Len(chain) : chain[k] = chain[1] + 7 * (k - 1)

\* C27 witness: the Weekly rule anchored on Wednesday 2025-01-15 with
\* dayOfWeek = 6 has been evaluated MaxCount times: the first occurrence is
\* Saturday 2025-01-18 and the last one 7 * (MaxCount - 1) days later
C27_Witness ==
  /\ rule.repeatType = "weekly"
  /\ rule.startDate = 20250115
  /\ rule.details.dayOfWeek = Some(6)
  /\ Len(chain) = MaxCount
  /\ chain[1] = ruleStart + 3
  /\ chain[MaxCount] = ruleStart + 3 + 7 * (MaxCount - 1)

\* the kind-specific parameters derived from the anchor
anchorDetails(anchor, repeatType) ==
  CASE repeatType = "weekly"  -> [NoDetails EXCEPT !.dayOfWeek = Some((anchor + 4) % 7)]
    [] repeatType = "monthly" -> [NoDetails EXCEPT !.dayOfMonth = Some(getDate(anchor))]
    [] repeatType = "yearly"  -> [NoDetails EXCEPT !.monthOfYear = Some(getMonth1(anchor)),
                                                   !.dayOfYear = Some(getDate(anchor))]
    [] OTHER                  -> NoDetails

\* C28 (as claimed): omitting the kind-specific parameter is the same as
\* supplying the value derived from the anchor: for every anchor (the 29th,
\* 30th, 31st and Feb 29 included) and every iteration, getNextPaymentDate
\* without parameters returns the date it returns with dayOfWeek = the
\* anchor's weekday, dayOfMonth = the anchor's day, or monthOfYear and
\* dayOfYear = the anchor's month and day
C28_OmittedIsAnchorDerived ==
  (rule.repeatType \in {"weekly", "monthly", "yearly"} /\ rule.details = NoDetails) =>
    \A i \in 1..Len(chain) :
      chain[i] = getNextPaymentDate(ruleStart, rule.repeatType, i,
                                    anchorDetails(ruleStart, rule.repeatType))

(***************************************************************************)
(* Instances and deleted accounts (SpecSerial).                            *)
(***************************************************************************)
\* the account id has a row with is_active = 1
activeAccount(id) == \E a \in accounts : a.id = id /\ a.is_active = 1

\* C29 (as claimed): no instance belongs to an inactive or absent account:
\* with no operation in flight every instance's account is active, and no
\* step of any operation creates an instance for an account id that is
\* soft-deleted or absent at that step
C29_NoInstanceOfDeletedAccount ==
  /\ []((\A u \in TaskIds : tasks[u].pc = "idle") =>
          \A p \in payments : activeAccount(p.account_id))
  /\ [][\A p \in payments' \ payments : activeAccount(p.account_id)]_vars

(***************************************************************************)
(* The window as the days pass (SpecDates).                                *)
(***************************************************************************)
\* sequence a is the beginning of sequence b
startsWith(b, a) == Len(a) <= Len(b) /\ \A i \in 1..Len(a) : b[i] = a[i]

\* the dates of the recorded generatePaymentDates call, had it been made off
\* days later
datesLater(off) ==
  generatePaymentDates(rule.startDate, rule.repeatType, gen.months, gen.endDate,
                       rule.details, parseISO(gen.today) + off)

\* C30: the window only grows: for a fixed rule and today1 <= today2 the
\* dates generatePaymentDates returns at today1 are a prefix of those it
\* returns at today2, so a SkipExisting run at today2 that follows a
\* completed run at today1 skips every earlier date, creates only dates
\* later than all of them and leaves the earlier instances as they were
C30_WindowOnlyGrows ==
  /\ gen.call = "generatePaymentDates" =>
       \A off \in LaterOffsets \cup {0} : startsWith(datesLater(off), gen.dates)
  /\ gen.call = "generatePaymentsForAccount twice" =>
       /\ startsWith(gen.laterDates, gen.dates)
       /\ gen.run.skipped = Len(gen.dates)
       /\ gen.run.created = Len(gen.laterDates) - Len(gen.dates)
       /\ gen.held \subseteq gen.run.rows
       /\ \A p \in gen.run.rows \ gen.held, q \in gen.held : p.due_date > q.due_date
       /\ {p.due_date : p \in gen.run.rows} = {gen.laterDates[i] : i \in 1..Len(gen.laterDates)}

\* C30 witness: 31 days after a run that created instances, the SkipExisting
\* run of the same account skipped them all and created later ones
C30_Witness ==
  /\ gen.call = "generatePaymentsForAccount twice"
  /\ parseISO(gen.later) = parseISO(gen.today) + 31
  /\ gen.run.skipped >= 2
  /\ gen.run.created >= 1

====
